---- MODULE Spec2Model ----
(***************************************************************************)
(* SwiftChannel: a single-producer/single-consumer framed byte queue in a  *)
(* shared memory region (SharedMemoryHeader + power-of-two ring).          *)
(*                                                                         *)
(* The producer is Sender::send_bytes -> RingBuffer::try_write, the        *)
(* consumer is Receiver::Impl::poll_one -> RingBuffer::try_read.  Both are *)
(* taken one shared-memory access at a time (a load of the peer's index,   *)
(* a copy, the store of the own index) and interleaved freely.             *)
(***************************************************************************)
EXTENDS Integers, Sequences, FiniteSets, TLC

\* ------------------------------------------------------------------ bounds

\* send_bytes calls made in one behaviour
MaxSends == 3
\* process id of the producer
SenderPid == 7
\* process id of the consumer
ReceiverPid == 9
\* send_bytes calls made in one behaviour with small buffers and bad frames
MaxRecvSends == 2
\* send_bytes calls made in one behaviour while peers attach
MaxAttachSends == 1
\* process id of the peer of an earlier run that initialised a region
OtherPid == 5
\* explicit Channel::close calls made on one Channel object
MaxCloses == 2
\* send_bytes calls made in one behaviour while the receiver's worker runs
MaxAsyncSends == 1
\* send_bytes calls made in one behaviour that fills the ring
MaxFillSends == 17
\* start_async calls made on one Receiver
MaxStarts == 3
\* send_bytes calls made in one behaviour with the receiver started first
MaxFirstSends == 1
\* send_bytes calls made in one behaviour with damaged payloads
MaxChecksumSends == 2

\* ------------------------------------------------------- program constants

MAGIC == 1398229318                 \* 0x53574946, both headers
MessageHeaderSize == 32             \* sizeof(MessageHeader)
SharedMemoryHeaderSize == 128       \* sizeof(SharedMemoryHeader)
CACHE_LINE_SIZE == 64
PayloadAlign == 8                   \* align_up(data_size, 8)
MinRingSize == 4096
MinMessageSize == 64
PROTOCOL_VERSION == [major |-> 1, minor |-> 0, patch |-> 0]

\* ------------------------------------------------------------ bit helpers

RECURSIVE BitAnd(_, _)
BitAnd(x, y) ==
    IF x = 0 \/ y = 0 THEN 0
    ELSE (x % 2) * (y % 2) + 2 * BitAnd(x \div 2, y \div 2)

RECURSIVE BitOr(_, _)
BitOr(x, y) ==
    IF x = 0 THEN y
    ELSE IF y = 0 THEN x
    ELSE (IF x % 2 = 1 \/ y % 2 = 1 THEN 1 ELSE 0) + 2 * BitOr(x \div 2, y \div 2)

\* (value + alignment - 1) & ~(alignment - 1); every call site passes a
\* power of two, for which clearing the low bits is subtracting the remainder
align_up(value, alignment) ==
    (value + alignment - 1) - BitAnd(value + alignment - 1, alignment - 1)

is_power_of_two(value) == value # 0 /\ BitAnd(value, value - 1) = 0

\* Version::as_uint32
as_uint32(v) == BitOr(BitOr(v.major * 65536, v.minor * 256), v.patch)

\* ------------------------------------------------------------ byte layout

\* an n-byte little-endian integer field, as memcpy of the struct lays it out
RECURSIVE LE(_, _)
LE(v, n) == IF n = 0 THEN <<>> ELSE <<v % 256>> \o LE(v \div 256, n - 1)

RECURSIVE FromLE(_)
FromLE(bs) == IF bs = <<>> THEN 0 ELSE Head(bs) + 256 * FromLE(Tail(bs))

\* static_cast<uint32_t>(v): the low four bytes of v
uint32(v) == FromLE(LE(v, 4))

\* the 32 bytes of a MessageHeader
HeaderBytes(h) ==
    LE(h.magic, 4) \o LE(h.size, 4) \o LE(h.sequence, 8) \o
    LE(h.timestamp, 8) \o LE(h.checksum, 4) \o LE(h.reserved, 4)

HeaderOfBytes(bs) ==
    [magic     |-> FromLE(SubSeq(bs, 1, 4)),
     size      |-> FromLE(SubSeq(bs, 5, 8)),
     sequence  |-> FromLE(SubSeq(bs, 9, 16)),
     timestamp |-> FromLE(SubSeq(bs, 17, 24)),
     checksum  |-> FromLE(SubSeq(bs, 25, 28)),
     reserved  |-> FromLE(SubSeq(bs, 29, 32))]

ZeroHeader ==
    [magic |-> 0, size |-> 0, sequence |-> 0, timestamp |-> 0,
     checksum |-> 0, reserved |-> 0]

\* ----------------------------------------------------------- configuration

\* struct ChannelConfig with the given ring_buffer_size, max_message_size and
\* flags, and the default member initialisers for the other members
ChannelConfig(r, m, f) ==
    [ring_buffer_size |-> r, max_message_size |-> m, flags |-> f,
     timeout_us |-> 0, enable_checksum |-> FALSE, overwrite_on_full |-> FALSE]

\* a variant of is_valid that compares max_message_size with the whole ring
is_valid_WholeRing(c) ==
    IF ~is_power_of_two(c.ring_buffer_size) THEN FALSE
    ELSE IF c.max_message_size >= c.ring_buffer_size THEN FALSE
    ELSE IF c.ring_buffer_size < MinRingSize \/ c.max_message_size < MinMessageSize
         THEN FALSE
    ELSE TRUE

\* a variant of is_valid that accepts max_message_size = ring_buffer_size / 2
is_valid_AcceptsHalf(c) ==
    IF ~is_power_of_two(c.ring_buffer_size) THEN FALSE
    ELSE IF c.max_message_size > c.ring_buffer_size \div 2 THEN FALSE
    ELSE IF c.ring_buffer_size < MinRingSize \/ c.max_message_size < MinMessageSize
         THEN FALSE
    ELSE TRUE

\* ChannelConfig::is_valid
is_valid(c) ==
    IF ~is_power_of_two(c.ring_buffer_size) THEN FALSE
    ELSE IF c.max_message_size >= c.ring_buffer_size \div 2 THEN FALSE
    ELSE IF c.ring_buffer_size < MinRingSize \/ c.max_message_size < MinMessageSize
         THEN FALSE
    ELSE TRUE

\* ------------------------------------------------------------------ state

VARIABLES
    hdr,          \* the SharedMemoryHeader at offset 0 of the region
    ring,         \* the ring bytes behind it: position -> byte
    config_valid, \* what is_valid() said of the configuration: "unchecked",
                  \* "valid" or "invalid"
    opening,      \* the Channel::open call of each peer: pc, locals, result
    validation,   \* a validate_header call: the builds involved and the result
    found,        \* history: the region as it was before the first attach
    chan,         \* per peer: its mapping of the region and its Channel object
    rx,           \* Receiver::Impl: running_, the worker thread, a stop() call
    sender,       \* Sender: config_ and whether channel_ is open
    receiver,     \* Receiver::Impl: config_, whether channel_ is open, stats_
    tw,           \* the producer's call of send_bytes/try_write: pc and locals
    tr,           \* the consumer's call of poll_one/try_read: pc and locals
    send_result,  \* what the last send_bytes returned
    read_result,  \* what the last try_read returned
    send_arg,     \* the data the last send_bytes was called with
    nsends,       \* send_bytes calls made so far, retries not counted
    sent,         \* history: the frames of the sends that returned Success
    delivered     \* history: the payloads try_read handed out

vars == <<hdr, ring, config_valid, opening, validation, found, chan, rx, sender, receiver,
          tw, tr,
          send_result, read_result, send_arg, nsends, sent, delivered>>

\* ------------------------------------------------------------- ring copies

\* std::memcpy(dst + dst_off, src + src_off, n); src is a sequence (1-based)
Memcpy(dst, dst_off, src, src_off, n) ==
    [p \in DOMAIN dst |->
        IF dst_off <= p /\ p < dst_off + n
        THEN src[src_off + (p - dst_off) + 1]
        ELSE dst[p]]

\* RingBuffer::write_bytes
write_bytes(buffer_, size_, mask_, src, size, offset) ==
    LET pos     == BitAnd(offset, mask_)
        end_pos == pos + size
    IN  IF end_pos <= size_
        THEN Memcpy(buffer_, pos, src, 0, size)
        ELSE LET first_part == size_ - pos
             IN  Memcpy(Memcpy(buffer_, pos, src, 0, first_part),
                        0, src, first_part, size - first_part)

\* a variant of read_bytes whose second copy starts one byte late
read_bytes_LateWrap(buffer_, size_, mask_, size, offset) ==
    LET pos     == BitAnd(offset, mask_)
        end_pos == pos + size
    IN  IF end_pos <= size_
        THEN [i \in 1..size |-> buffer_[pos + i - 1]]
        ELSE LET first_part == size_ - pos
             IN  [i \in 1..size |->
                    IF i <= first_part THEN buffer_[pos + i - 1]
                    ELSE buffer_[i - first_part]]

\* RingBuffer::read_bytes: the size bytes it copies to dst, in order
read_bytes(buffer_, size_, mask_, size, offset) ==
    LET pos     == BitAnd(offset, mask_)
        end_pos == pos + size
    IN  IF end_pos <= size_
        THEN [i \in 1..size |-> buffer_[pos + i - 1]]
        ELSE LET first_part == size_ - pos
             IN  [i \in 1..size |->
                    IF i <= first_part THEN buffer_[pos + i - 1]
                    ELSE buffer_[i - first_part - 1]]

\* RingBuffer(memory, size): size_ and mask_ of the ring a Channel built
\* from config c uses (Channel::Channel passes config_.ring_buffer_size)
RingBuffer(c) == [size_ |-> c.ring_buffer_size, mask_ |-> c.ring_buffer_size - 1]

\* -------------------------------------------------------------- handshake

\* Handshake::initialize_header on a zeroed header
initialize_header(ring_buffer_size, flags, pid) ==
    [magic            |-> MAGIC,
     version          |-> as_uint32(PROTOCOL_VERSION),
     ring_buffer_size |-> ring_buffer_size,
     write_index      |-> 0,
     read_index       |-> 0,
     sender_pid       |-> pid,
     receiver_pid     |-> 0,
     flags            |-> flags,
     reserved         |-> 0]

\* Version::is_compatible_with
is_compatible_with(own, other) == own.major = other.major

\* the Version validate_header decodes from header->version:
\* (version >> 16) & 0xFFFF, (version >> 8) & 0xFF, version & 0xFF
header_version(version) ==
    [major |-> BitAnd(version \div 65536, 65535),
     minor |-> BitAnd(version \div 256, 255),
     patch |-> BitAnd(version, 255)]

\* a variant of validate_header_of that looks at ring_buffer_size before
\* the version
validate_header_of_SizeFirst(own, header) ==
    IF header.magic # MAGIC THEN "InvalidMemoryLayout"
    ELSE IF header.ring_buffer_size = 0
            \/ BitAnd(header.ring_buffer_size, header.ring_buffer_size - 1) # 0
         THEN "InvalidMemoryLayout"
    ELSE IF ~is_compatible_with(own, header_version(header.version))
         THEN "VersionMismatch"
    ELSE "Success"

\* Handshake::validate_header on a non-null header, in a build whose
\* PROTOCOL_VERSION is own
validate_header_of(own, header) ==
    IF header.magic # MAGIC THEN "InvalidMemoryLayout"
    ELSE IF ~is_compatible_with(own, header_version(header.version))
         THEN "VersionMismatch"
    ELSE IF header.ring_buffer_size = 0
            \/ BitAnd(header.ring_buffer_size, header.ring_buffer_size - 1) # 0
         THEN "InvalidMemoryLayout"
    ELSE "Success"

\* Handshake::validate_header of this build
validate_header(header) == validate_header_of(PROTOCOL_VERSION, header)

\* Handshake::sender_handshake on a non-null header
sender_handshake(header) ==
    IF header.magic = MAGIC THEN validate_header(header) ELSE "Success"

\* ------------------------------------------------------------------ inputs

\* the configurations Sender and Receiver are constructed with
Configs ==
    {ChannelConfig(4096, 2047, 0),
     ChannelConfig(4096, 64, 0),
     ChannelConfig(4096, 4090, 0)}

\* payload lengths a caller passes: empty, short and unaligned, long, the
\* largest allowed, and one byte more than allowed
PayloadSizes(c) ==
    {n \in {3, c.max_message_size - 79, c.max_message_size,
            c.max_message_size + 1} : n >= 0}

\* The caller's data: n bytes starting with byte b and counting up.  The
\* producer's locals and the history keep (n, b); Bytes is what data points to.
Bytes(d) == [i \in 1..d.n |-> (d.b + i - 1) % 256]

\* the data of the k-th call, so that successive payloads differ
DataOfCall(k, n) == [n |-> n, b |-> 16 * k + 1]

\* steady_clock::now() in the k-th call: a clock that never goes back
get_timestamp_ns(k) == 1000 + k

tw_idle ==
    [pc |-> "idle", data |-> [n |-> 0, b |-> 0], data_size |-> 0, total_size |-> 0,
     current_write |-> 0, current_read |-> 0, msg_header |-> ZeroHeader]

tr_idle ==
    [pc |-> "idle", via_poll |-> TRUE, current_read |-> 0, current_write |-> 0,
     msg_header |-> ZeroHeader, data_size |-> 0, buffer |-> <<>>]

\* The consumer's call after try_read returned.  poll_one's buffer and size
\* are locals that die with the call; a direct caller of try_read keeps its
\* buffer and the in/out data_size.
try_read_return(t, data_size, buffer) ==
    IF t.via_poll THEN tr_idle
    ELSE [tr_idle EXCEPT !.via_poll = FALSE, !.data_size = data_size,
                         !.buffer = buffer]

\* a header nobody wrote yet
ZeroSharedHeader ==
    [magic |-> 0, version |-> 0, ring_buffer_size |-> 0, write_index |-> 0,
     read_index |-> 0, sender_pid |-> 0, receiver_pid |-> 0, flags |-> 0,
     reserved |-> 0]

\* a peer that has not called Channel::open yet
not_opened == [pc |-> "start", needs_init |-> FALSE, result |-> "none", inits |-> 0]

\* a peer whose Channel::open has returned; needs_init is the local of that
\* name, inits counts the initialize_header calls it made
opened(needs_init, result) ==
    [pc |-> "done", needs_init |-> needs_init, result |-> result,
     inits |-> IF needs_init THEN 1 ELSE 0]

\* no region of the channel's name existed before the first attach
no_region == [exists |-> FALSE, hdr |-> ZeroSharedHeader, size |-> 0, ring |-> <<>>]

\* a peer's mapping and Channel object before Channel::open: no mapping, the
\* members of a default-constructed Channel
no_channel ==
    [pc |-> "none", mapped |-> FALSE, munmaps |-> 0, fd_closes |-> 0,
     shared_memory_ |-> FALSE, platform_handle_ |-> FALSE, header_ |-> FALSE,
     ring_buffer_ |-> FALSE, closes |-> 0]

no_channels == [sender |-> no_channel, receiver |-> no_channel]

\* a Receiver on which neither start_async nor stop was called
rx_idle ==
    [running_ |-> FALSE, worker |-> "none", threads |-> 0, stop |-> "idle",
     start_result |-> "none", starts |-> 0]

\* no validate_header call was made
no_validation ==
    [writer |-> PROTOCOL_VERSION, peer |-> PROTOCOL_VERSION, result |-> "none"]

\* State after Sender(name, c) and then Receiver(name, c) were constructed on
\* a fresh zero-filled region.  Channel::open refuses a configuration that
\* is not valid before it touches any region, and channel_ stays null;
\* otherwise it initialised the header and both channels are open.
InitWith(configs) ==
    \E c \in configs :
        /\ IF is_valid(c)
           THEN /\ hdr = initialize_header(c.ring_buffer_size, c.flags, SenderPid)
                /\ ring = [p \in 0..(c.ring_buffer_size - 1) |-> 0]
           ELSE /\ hdr = ZeroSharedHeader
                /\ ring = <<>>
        /\ config_valid = IF is_valid(c) THEN "valid" ELSE "invalid"
        /\ opening = IF is_valid(c)
                     THEN [sender   |-> opened(TRUE, "Success"),
                           receiver |-> opened(FALSE, "Success")]
                     ELSE [sender   |-> opened(FALSE, "InvalidOperation"),
                           receiver |-> opened(FALSE, "InvalidOperation")]
        /\ validation = no_validation
        /\ found = no_region
        /\ chan = no_channels
        /\ rx = rx_idle
        /\ sender = [config_ |-> c, open |-> is_valid(c)]
        /\ receiver = [config_ |-> c, open |-> is_valid(c), messages_received |-> 0]
        /\ send_arg = [n |-> 0, b |-> 0]
        /\ tw = tw_idle
        /\ tr = tr_idle
        /\ send_result = "none"
        /\ read_result = "none"
        /\ nsends = 0
        /\ sent = <<>>
        /\ delivered = <<>>

Init == InitWith(Configs)

\* ---------------------------------------------------------------- producer

\* Sender::is_ready
is_ready(s) == s.open

\* a variant of available that subtracts the write index alone, so that
\* space the consumer frees never comes back
available_IgnoresReads(size_, current_write, current_read) ==
    LET d == size_ - current_write
    IN  IF d >= 0 THEN d ELSE 2147483647 + d

\* a variant of available that leaves the occupancy out
available_IgnoresOccupancy(size_, current_write, current_read) == size_

\* size_ - (current_write - current_read) in uint64_t.  A negative difference
\* wraps to 2^64 + d, larger than every size here; 2^31 - 1 + d stands for it.
available(size_, current_write, current_read) ==
    LET d == size_ - (current_write - current_read)
    IN  IF d >= 0 THEN d ELSE 2147483647 + d

\* RingBuffer::available_write_space: both indices loaded, then
\* size_ - static_cast<size_t>(current_write - current_read)
available_write_space(size_, header) ==
    available(size_, header.write_index, header.read_index)

\* Sender::available_space
available_space(s, header) ==
    IF ~is_ready(s) THEN 0
    ELSE available_write_space(RingBuffer(s.config_).size_, header)

\* sizeof(MessageHeader) + align_up(data_size, 8)
total_size(data_size) == MessageHeaderSize + align_up(data_size, PayloadAlign)

\* a variant of SendBytes that rejects a size equal to max_message_size
SendBytes_RejectsMaxSize(data) ==
    /\ tw.pc = "idle"
    /\ send_arg' = data
    /\ IF ~is_ready(sender)
       THEN /\ send_result' = "ChannelClosed"
            /\ tw' = tw_idle
       ELSE IF data.n >= sender.config_.max_message_size
       THEN /\ send_result' = "MessageTooLarge"
            /\ tw' = tw_idle
       ELSE /\ send_result' = "pending"
            /\ tw' = [tw_idle EXCEPT
                        !.pc = "load_read",
                        !.data = data,
                        !.data_size = data.n,
                        !.total_size = total_size(data.n),
                        !.current_write = hdr.write_index]
    /\ UNCHANGED <<hdr, ring, config_valid, opening, validation, found, chan, rx, sender, receiver, tr, read_result,
                   sent, delivered>>

\* Sender::send_bytes up to the first shared load of try_write: the ready and
\* size checks, then total_size and the relaxed load of the own write_index
SendBytes(data) ==
    /\ tw.pc = "idle"
    /\ send_arg' = data
    /\ IF ~is_ready(sender)
       THEN /\ send_result' = "ChannelClosed"
            /\ tw' = tw_idle
       ELSE IF data.n > sender.config_.max_message_size
       THEN /\ send_result' = "MessageTooLarge"
            /\ tw' = tw_idle
       ELSE /\ send_result' = "pending"
            /\ tw' = [tw_idle EXCEPT
                        !.pc = "load_read",
                        !.data = data,
                        !.data_size = data.n,
                        !.total_size = total_size(data.n),
                        !.current_write = hdr.write_index]
    /\ UNCHANGED <<hdr, ring, config_valid, opening, validation, found, chan, rx, sender, receiver, tr, read_result,
                   sent, delivered>>

\* the caller sends new data
Send(n) ==
    /\ nsends < MaxSends
    /\ nsends' = nsends + 1
    /\ SendBytes(DataOfCall(nsends, n))

\* the caller sends again the data a send returned ChannelFull for
Retry ==
    /\ send_result = "ChannelFull"
    /\ nsends' = nsends
    /\ SendBytes(send_arg)

\* a variant of TryWriteCheck that copies the header in before the check
TryWriteCheck_WritesFirst ==
    /\ tw.pc = "load_read"
    /\ LET rb == RingBuffer(sender.config_)
           current_read == hdr.read_index
           h == [magic     |-> MAGIC,
                 size      |-> uint32(tw.data_size),
                 sequence  |-> tw.current_write,
                 timestamp |-> get_timestamp_ns(nsends),
                 checksum  |-> 0,
                 reserved  |-> 0]
       IN  /\ ring' = write_bytes(ring, rb.size_, rb.mask_, HeaderBytes(h),
                                  MessageHeaderSize, tw.current_write)
           /\ IF available(rb.size_, tw.current_write, current_read) < tw.total_size
              THEN /\ send_result' = "ChannelFull"
                   /\ tw' = tw_idle
              ELSE /\ send_result' = send_result
                   /\ tw' = [tw EXCEPT !.pc = "write_header",
                                       !.current_read = current_read,
                                       !.msg_header = h]
    /\ UNCHANGED <<hdr, config_valid, opening, validation, found, chan, rx, sender, receiver, tr, read_result, send_arg,
                   nsends, sent, delivered>>

\* a variant of TryWriteCheck that numbers the frames 1, 2, 3, ...
TryWriteCheck_CountsFrames ==
    /\ tw.pc = "load_read"
    /\ LET rb == RingBuffer(sender.config_)
           current_read == hdr.read_index
       IN  IF available(rb.size_, tw.current_write, current_read) < tw.total_size
           THEN /\ send_result' = "ChannelFull"
                /\ tw' = tw_idle
           ELSE /\ send_result' = send_result
                /\ tw' = [tw EXCEPT
                            !.pc = "write_header",
                            !.current_read = current_read,
                            !.msg_header =
                                [magic     |-> MAGIC,
                                 size      |-> uint32(tw.data_size),
                                 sequence  |-> nsends,
                                 timestamp |-> get_timestamp_ns(nsends),
                                 checksum  |-> 0,
                                 reserved  |-> 0]]
    /\ UNCHANGED <<hdr, ring, config_valid, opening, validation, found, chan, rx, sender, receiver, tr,
                   read_result, send_arg, nsends, sent, delivered>>

\* a variant of TryWriteCheck that keeps one byte of the ring free
TryWriteCheck_KeepsOneFree ==
    /\ tw.pc = "load_read"
    /\ LET rb == RingBuffer(sender.config_)
           current_read == hdr.read_index
       IN  IF available(rb.size_, tw.current_write, current_read) <= tw.total_size
           THEN /\ send_result' = "ChannelFull"
                /\ tw' = tw_idle
           ELSE /\ send_result' = send_result
                /\ tw' = [tw EXCEPT
                            !.pc = "write_header",
                            !.current_read = current_read,
                            !.msg_header =
                                [magic     |-> MAGIC,
                                 size      |-> uint32(tw.data_size),
                                 sequence  |-> tw.current_write,
                                 timestamp |-> get_timestamp_ns(nsends),
                                 checksum  |-> 0,
                                 reserved  |-> 0]]
    /\ UNCHANGED <<hdr, ring, config_valid, opening, validation, found, chan, rx, sender,
                   receiver, tr, read_result, send_arg, nsends, sent, delivered>>

\* a variant of TryWriteCheck that, with overwrite_on_full, drops the oldest
\* unread frame when the ring is full and writes over it
TryWriteCheck_Overwrites ==
    /\ tw.pc = "load_read"
    /\ LET rb == RingBuffer(sender.config_)
           current_read == hdr.read_index
           oldest == HeaderOfBytes(read_bytes(ring, rb.size_, rb.mask_,
                                              MessageHeaderSize, current_read))
           full == available(rb.size_, tw.current_write, current_read) < tw.total_size
       IN  IF full /\ ~sender.config_.overwrite_on_full
           THEN /\ send_result' = "ChannelFull"
                /\ tw' = tw_idle
                /\ hdr' = hdr
           ELSE /\ send_result' = send_result
                /\ hdr' = IF full
                          THEN [hdr EXCEPT !.read_index = @ + total_size(oldest.size)]
                          ELSE hdr
                /\ tw' = [tw EXCEPT
                            !.pc = "write_header",
                            !.current_read = current_read,
                            !.msg_header =
                                [magic     |-> MAGIC,
                                 size      |-> uint32(tw.data_size),
                                 sequence  |-> tw.current_write,
                                 timestamp |-> get_timestamp_ns(nsends),
                                 checksum  |-> 0,
                                 reserved  |-> 0]]
    /\ UNCHANGED <<ring, config_valid, opening, validation, found, chan, rx, sender,
                   receiver, tr, read_result, send_arg, nsends, sent, delivered>>

\* try_write: the acquire load of read_index and the space check; on success
\* the MessageHeader is built in the local msg_header.  On failure send_bytes
\* returns ChannelFull on both branches of if (config_.overwrite_on_full).
TryWriteCheck ==
    /\ tw.pc = "load_read"
    /\ LET rb == RingBuffer(sender.config_)
           current_read == hdr.read_index
       IN  IF available(rb.size_, tw.current_write, current_read) < tw.total_size
           THEN /\ send_result' = IF sender.config_.overwrite_on_full
                                  THEN "ChannelFull"
                                  ELSE "ChannelFull"
                /\ tw' = tw_idle
           ELSE /\ send_result' = send_result
                /\ tw' = [tw EXCEPT
                            !.pc = "write_header",
                            !.current_read = current_read,
                            !.msg_header =
                                [magic     |-> MAGIC,
                                 size      |-> uint32(tw.data_size),
                                 sequence  |-> tw.current_write,
                                 timestamp |-> get_timestamp_ns(nsends),
                                 checksum  |-> 0,
                                 reserved  |-> 0]]
    /\ UNCHANGED <<hdr, ring, config_valid, opening, validation, found, chan, rx, sender, receiver, tr, read_result, send_arg,
                   nsends, sent, delivered>>

\* a variant of TryWriteHeader that stores write_index right after the header
TryWriteHeader_PublishesEarly ==
    /\ tw.pc = "write_header"
    /\ LET rb == RingBuffer(sender.config_)
       IN  ring' = write_bytes(ring, rb.size_, rb.mask_, HeaderBytes(tw.msg_header),
                               MessageHeaderSize, tw.current_write)
    /\ hdr' = [hdr EXCEPT !.write_index = tw.current_write + tw.total_size]
    /\ tw' = [tw EXCEPT !.pc = "write_payload"]
    /\ UNCHANGED <<config_valid, opening, validation, found, chan, rx, sender, receiver, tr, send_result, read_result, send_arg,
                   nsends, sent, delivered>>

\* try_write: write_bytes(&msg_header, sizeof(msg_header), current_write)
TryWriteHeader ==
    /\ tw.pc = "write_header"
    /\ LET rb == RingBuffer(sender.config_)
       IN  ring' = write_bytes(ring, rb.size_, rb.mask_, HeaderBytes(tw.msg_header),
                               MessageHeaderSize, tw.current_write)
    /\ tw' = [tw EXCEPT !.pc = "write_payload"]
    /\ UNCHANGED <<hdr, config_valid, opening, validation, found, chan, rx, sender, receiver, tr, send_result, read_result, send_arg,
                   nsends, sent, delivered>>

\* try_write: write_bytes(data, data_size, current_write + sizeof(msg_header))
TryWritePayload ==
    /\ tw.pc = "write_payload"
    /\ LET rb == RingBuffer(sender.config_)
       IN  ring' = write_bytes(ring, rb.size_, rb.mask_, Bytes(tw.data), tw.data_size,
                               tw.current_write + MessageHeaderSize)
    /\ tw' = [tw EXCEPT !.pc = "publish"]
    /\ UNCHANGED <<hdr, config_valid, opening, validation, found, chan, rx, sender, receiver, tr, send_result, read_result, send_arg,
                   nsends, sent, delivered>>

\* a variant of TryWritePublish that advances write_index by the unpadded size
TryWritePublish_Unpadded ==
    /\ tw.pc = "publish"
    /\ hdr' = [hdr EXCEPT
                 !.write_index = tw.current_write + MessageHeaderSize + tw.data_size]
    /\ send_result' = "Success"
    /\ sent' = Append(sent, [payload   |-> tw.data,
                             sequence  |-> tw.msg_header.sequence,
                             timestamp |-> tw.msg_header.timestamp])
    /\ tw' = tw_idle
    /\ UNCHANGED <<ring, config_valid, opening, validation, found, chan, rx, sender, receiver, tr,
                   read_result, send_arg, nsends, delivered>>

\* try_write: the release store of write_index, and send_bytes returns Success
TryWritePublish ==
    /\ tw.pc = "publish"
    /\ hdr' = [hdr EXCEPT !.write_index = tw.current_write + tw.total_size]
    /\ send_result' = "Success"
    /\ sent' = Append(sent, [payload   |-> tw.data,
                             sequence  |-> tw.msg_header.sequence,
                             timestamp |-> tw.msg_header.timestamp])
    /\ tw' = tw_idle
    /\ UNCHANGED <<ring, config_valid, opening, validation, found, chan, rx, sender, receiver, tr, read_result, send_arg, nsends,
                   delivered>>

\* ---------------------------------------------------------------- consumer

\* Receiver::Impl::poll_one up to the first shared load of try_read: a fresh
\* buffer of max_message_size bytes and the relaxed load of the own read_index
PollOne ==
    /\ tr.pc = "idle"
    /\ IF ~receiver.open
       THEN /\ read_result' = "ChannelNotFound"
            /\ tr' = tr_idle
       ELSE /\ read_result' = "pending"
            /\ tr' = [tr_idle EXCEPT
                        !.pc = "load_write",
                        !.buffer = [i \in 1..receiver.config_.max_message_size |-> 0],
                        !.data_size = receiver.config_.max_message_size,
                        !.current_read = hdr.read_index]
    /\ UNCHANGED <<hdr, ring, config_valid, opening, validation, found, chan, rx, sender, receiver, tw, send_result, send_arg,
                   nsends, sent, delivered>>

\* a caller of Channel::ring_buffer()->try_read(data, data_size, header) with
\* a buffer of n bytes, up to the first shared load
TryRead(n) ==
    /\ tr.pc = "idle"
    /\ receiver.open
    /\ read_result' = "pending"
    /\ tr' = [tr_idle EXCEPT
                 !.pc = "load_write",
                 !.via_poll = FALSE,
                 !.buffer = [i \in 1..n |-> 0],
                 !.data_size = n,
                 !.current_read = hdr.read_index]
    /\ UNCHANGED <<hdr, ring, config_valid, opening, validation, found, chan, rx, sender, receiver, tw,
                   send_result, send_arg, nsends, sent, delivered>>

\* try_read: the acquire load of write_index and the empty check
TryReadCheck ==
    /\ tr.pc = "load_write"
    /\ LET current_write == hdr.write_index
       IN  IF tr.current_read >= current_write
           THEN /\ read_result' = "false"
                /\ tr' = try_read_return(tr, tr.data_size, tr.buffer)
           ELSE /\ read_result' = read_result
                /\ tr' = [tr EXCEPT !.pc = "read_header",
                                    !.current_write = current_write]
    /\ UNCHANGED <<hdr, ring, config_valid, opening, validation, found, chan, rx, sender, receiver, tw, send_result, send_arg,
                   nsends, sent, delivered>>

\* a variant of TryReadHeader that drops a frame the caller's buffer is too
\* small for
TryReadHeader_DropsTooLarge ==
    /\ tr.pc = "read_header"
    /\ LET rb == RingBuffer(receiver.config_)
           h  == HeaderOfBytes(read_bytes(ring, rb.size_, rb.mask_,
                                          MessageHeaderSize, tr.current_read))
       IN  IF h.magic # MAGIC
           THEN /\ read_result' = "false"
                /\ tr' = try_read_return(tr, tr.data_size, tr.buffer)
                /\ hdr' = hdr
           ELSE IF h.size > tr.data_size
           THEN /\ read_result' = "false"
                /\ tr' = try_read_return(tr, h.size, tr.buffer)
                /\ hdr' = [hdr EXCEPT
                             !.read_index = tr.current_read + total_size(h.size)]
           ELSE /\ read_result' = read_result
                /\ tr' = [tr EXCEPT !.pc = "read_payload", !.msg_header = h]
                /\ hdr' = hdr
    /\ UNCHANGED <<ring, config_valid, opening, validation, found, chan, rx, sender, receiver, tw,
                   send_result, send_arg, nsends, sent, delivered>>

\* a variant of TryReadHeader without the magic check
TryReadHeader_NoMagicCheck ==
    /\ tr.pc = "read_header"
    /\ LET rb == RingBuffer(receiver.config_)
           h  == HeaderOfBytes(read_bytes(ring, rb.size_, rb.mask_,
                                          MessageHeaderSize, tr.current_read))
       IN  IF h.size > tr.data_size
           THEN /\ read_result' = "false"
                /\ tr' = try_read_return(tr, h.size, tr.buffer)
           ELSE /\ read_result' = read_result
                /\ tr' = [tr EXCEPT !.pc = "read_payload", !.msg_header = h]
    /\ UNCHANGED <<hdr, ring, config_valid, opening, validation, found, chan, rx, sender, receiver, tw,
                   send_result, send_arg, nsends, sent, delivered>>

\* try_read: read_bytes(&msg_header, ...), the magic check and the check of
\* the caller's buffer size
TryReadHeader ==
    /\ tr.pc = "read_header"
    /\ LET rb == RingBuffer(receiver.config_)
           h  == HeaderOfBytes(read_bytes(ring, rb.size_, rb.mask_,
                                          MessageHeaderSize, tr.current_read))
       IN  IF h.magic # MAGIC
           THEN /\ read_result' = "false"
                /\ tr' = try_read_return(tr, tr.data_size, tr.buffer)
           ELSE IF h.size > tr.data_size
           THEN /\ read_result' = "false"
                /\ tr' = try_read_return(tr, h.size, tr.buffer)
           ELSE /\ read_result' = read_result
                /\ tr' = [tr EXCEPT !.pc = "read_payload", !.msg_header = h]
    /\ UNCHANGED <<hdr, ring, config_valid, opening, validation, found, chan, rx, sender, receiver, tw, send_result, send_arg,
                   nsends, sent, delivered>>

\* try_read: read_bytes(data, msg_header.size, current_read + sizeof(msg_header))
TryReadPayload ==
    /\ tr.pc = "read_payload"
    /\ LET rb == RingBuffer(receiver.config_)
           bs == read_bytes(ring, rb.size_, rb.mask_, tr.msg_header.size,
                            tr.current_read + MessageHeaderSize)
       IN  tr' = [tr EXCEPT
                    !.pc = "advance",
                    !.buffer = [i \in DOMAIN tr.buffer |->
                                   IF i <= tr.msg_header.size THEN bs[i]
                                   ELSE tr.buffer[i]]]
    /\ UNCHANGED <<hdr, ring, config_valid, opening, validation, found, chan, rx, sender, receiver, tw, send_result, read_result,
                   send_arg, nsends, sent, delivered>>

\* a variant of TryReadAdvance that does not store read_index
\* a variant of TryReadAdvance that advances read_index by the unpadded size
TryReadAdvance_Unpadded ==
    /\ tr.pc = "advance"
    /\ hdr' = [hdr EXCEPT
                 !.read_index = tr.current_read + MessageHeaderSize + tr.msg_header.size]
    /\ read_result' = "true"
    /\ delivered' = Append(delivered, SubSeq(tr.buffer, 1, tr.msg_header.size))
    /\ receiver' = IF tr.via_poll
                   THEN [receiver EXCEPT !.messages_received = @ + 1]
                   ELSE receiver
    /\ tr' = try_read_return(tr, tr.msg_header.size, tr.buffer)
    /\ UNCHANGED <<ring, config_valid, opening, validation, found, chan, rx, sender, tw,
                   send_result, send_arg, nsends, sent>>

TryReadAdvance_NoStore ==
    /\ tr.pc = "advance"
    /\ read_result' = "true"
    /\ delivered' = Append(delivered, SubSeq(tr.buffer, 1, tr.msg_header.size))
    /\ receiver' = IF tr.via_poll
                   THEN [receiver EXCEPT !.messages_received = @ + 1]
                   ELSE receiver
    /\ tr' = try_read_return(tr, tr.msg_header.size, tr.buffer)
    /\ UNCHANGED <<hdr, ring, config_valid, opening, validation, found, chan, rx, sender, tw, send_result, send_arg, nsends, sent>>

\* try_read: the release store of read_index and data_size = msg_header.size;
\* poll_one then passes (buffer.data(), size) to the handler and counts the
\* message, a direct caller has the payload in its buffer
TryReadAdvance ==
    /\ tr.pc = "advance"
    /\ hdr' = [hdr EXCEPT
                 !.read_index = tr.current_read + total_size(tr.msg_header.size)]
    /\ read_result' = "true"
    /\ delivered' = Append(delivered, SubSeq(tr.buffer, 1, tr.msg_header.size))
    /\ receiver' = IF tr.via_poll
                   THEN [receiver EXCEPT !.messages_received = @ + 1]
                   ELSE receiver
    /\ tr' = try_read_return(tr, tr.msg_header.size, tr.buffer)
    /\ UNCHANGED <<ring, config_valid, opening, validation, found, chan, rx, sender, tw, send_result, send_arg, nsends, sent>>

\* ------------------------------------------------------------ specification

Next ==
    \/ \E n \in PayloadSizes(sender.config_) : Send(n)
    \/ Retry
    \/ TryWriteCheck
    \/ TryWriteHeader
    \/ TryWritePayload
    \/ TryWritePublish
    \/ PollOne
    \/ TryReadCheck
    \/ TryReadHeader
    \/ TryReadPayload
    \/ TryReadAdvance

Spec == Init /\ [][Next]_vars

\* The caller of the retry scenario: after ChannelFull it retries that send
\* and sends nothing else.  The threads are scheduled fairly: a call in
\* progress takes its next step, and the receiver loop keeps polling.
LiveConfigs ==
    {ChannelConfig(4096, 2047, 0),
     ChannelConfig(4096, 2040, 0)}

LiveSizes(c) == {c.max_message_size}

InitLive == InitWith(LiveConfigs)

NextLive ==
    \/ \E n \in LiveSizes(sender.config_) :
          send_result # "ChannelFull" /\ Send(n)
    \/ Retry
    \/ TryWriteCheck
    \/ TryWriteHeader
    \/ TryWritePayload
    \/ TryWritePublish
    \/ PollOne
    \/ TryReadCheck
    \/ TryReadHeader
    \/ TryReadPayload
    \/ TryReadAdvance

\* the next step of the producer thread: of the call in progress, or the retry
ProducerStep ==
    Retry \/ TryWriteCheck \/ TryWriteHeader \/ TryWritePayload \/ TryWritePublish

\* the next step of the consumer thread: of the poll in progress, or a new poll
ConsumerStep ==
    PollOne \/ TryReadCheck \/ TryReadHeader \/ TryReadPayload \/ TryReadAdvance

SpecLive ==
    /\ InitLive
    /\ [][NextLive]_vars
    /\ WF_vars(ProducerStep)
    /\ WF_vars(ConsumerStep)

\* ------------------------------------------- small buffers and bad frames

\* the magic values a damaged frame header carries
BadMagics == {0, MAGIC + 1}

\* Something outside the two peers overwrites the magic of the oldest unread
\* frame: the memory fault the magic check of try_read is there for.
Corrupt ==
    /\ hdr.read_index < hdr.write_index
    /\ LET rb == RingBuffer(receiver.config_)
           h  == HeaderOfBytes(read_bytes(ring, rb.size_, rb.mask_,
                                          MessageHeaderSize, hdr.read_index))
       IN  /\ h.magic = MAGIC
           /\ \E bad \in BadMagics :
                 ring' = write_bytes(ring, rb.size_, rb.mask_, LE(bad, 4), 4,
                                     hdr.read_index)
    /\ UNCHANGED <<hdr, config_valid, opening, validation, found, chan, rx, sender, receiver, tw, tr,
                   send_result, read_result, send_arg, nsends, sent, delivered>>

RecvConfigs ==
    {ChannelConfig(4096, 64, 0)}

\* payload lengths sent: short and unaligned, and the largest allowed
RecvSizes(c) == {3, c.max_message_size}

\* buffer lengths of direct try_read callers: too small for every frame
\* sent, and large enough for every frame
BufferSizes(c) == {2, c.max_message_size}

InitRecv == InitWith(RecvConfigs)

NextRecv ==
    \/ \E n \in RecvSizes(sender.config_) : nsends < MaxRecvSends /\ Send(n)
    \/ TryWriteCheck
    \/ TryWriteHeader
    \/ TryWritePayload
    \/ TryWritePublish
    \/ PollOne
    \/ \E n \in BufferSizes(receiver.config_) : TryRead(n)
    \/ TryReadCheck
    \/ TryReadHeader
    \/ TryReadPayload
    \/ TryReadAdvance
    \/ Corrupt

SpecRecv == InitRecv /\ [][NextRecv]_vars

\* ------------------------------------------------------ filling the ring

\* configurations with and without the Overwrite flag bit and
\* overwrite_on_full
FillConfigs ==
    {[ChannelConfig(4096, 2047, f) EXCEPT !.overwrite_on_full = o] :
        f \in {0, 2}, o \in BOOLEAN}

\* payload lengths whose frames divide the ring exactly (224, 2016) and do
\* not (256, 1000, 2047)
FillSizes == {224, 256, 1000, 2016, 2047}

InitFill == InitWith(FillConfigs)

\* the caller sends new data of the length of its earlier sends
FillSend(n) ==
    /\ nsends < MaxFillSends
    /\ nsends = 0 \/ n = send_arg.n
    /\ nsends' = nsends + 1
    /\ SendBytes(DataOfCall(nsends, n))

\* sends and no receive
NextFill ==
    \/ \E n \in FillSizes : FillSend(n)
    \/ TryWriteCheck
    \/ TryWriteHeader
    \/ TryWritePayload
    \/ TryWritePublish

SpecFill == InitFill /\ [][NextFill]_vars

\* --------------------------------------------------------------- checksums

\* configurations with enable_checksum set and clear, and with the
\* NoChecksum flag bit clear and set
ChecksumConfigs ==
    {[ChannelConfig(4096, 64, f) EXCEPT !.enable_checksum = e] :
        f \in {0, 1}, e \in BOOLEAN}

\* checksums are enabled by the configuration
checksums_enabled(c) == c.enable_checksum /\ BitAnd(c.flags, 1) = 0

ChecksumSizes(c) == {3}

InitChecksum == InitWith(ChecksumConfigs)

\* Something outside the two peers changes the first payload byte of the
\* oldest unread frame, once: the memory fault a checksum is there for.
CorruptPayload ==
    /\ hdr.read_index < hdr.write_index
    /\ Len(delivered) < Len(sent)
    /\ LET rb  == RingBuffer(receiver.config_)
           at  == hdr.read_index + MessageHeaderSize
           old == read_bytes(ring, rb.size_, rb.mask_, 1, at)
       IN  /\ old[1] = Bytes(sent[Len(delivered) + 1].payload)[1]
           /\ ring' = write_bytes(ring, rb.size_, rb.mask_,
                                  <<(old[1] + 1) % 256>>, 1, at)
    /\ UNCHANGED <<hdr, config_valid, opening, validation, found, chan, rx, sender,
                   receiver, tw, tr, send_result, read_result, send_arg, nsends, sent,
                   delivered>>

NextChecksum ==
    \/ \E n \in ChecksumSizes(sender.config_) : nsends < MaxChecksumSends /\ Send(n)
    \/ TryWriteCheck
    \/ TryWriteHeader
    \/ TryWritePayload
    \/ TryWritePublish
    \/ PollOne
    \/ TryReadCheck
    \/ TryReadHeader
    \/ TryReadPayload
    \/ TryReadAdvance
    \/ CorruptPayload

SpecChecksum == InitChecksum /\ [][NextChecksum]_vars

\* ------------------------------------------------------------------ attach

\* Sender::Sender and Receiver::Impl::Impl both call Channel::open
Peers == {"sender", "receiver"}

config_of(p) == IF p = "sender" THEN sender.config_ ELSE receiver.config_

\* getpid() in the peer's process
getpid(p) == IF p = "sender" THEN SenderPid ELSE ReceiverPid

\* Channel::open of peer p moves to pc
open_goto(p, pc) == opening' = [opening EXCEPT ![p].pc = pc]

\* ftruncate(fd, n) on the region's ring part: bytes kept up to n, zeros added
ftruncate(r, n) == [i \in 0..(n - 1) |-> IF i \in DOMAIN r THEN r[i] ELSE 0]

\* the region of the channel's name exists
region_exists == DOMAIN ring # {}

\* the size of the region: the aligned header and the ring
region_size ==
    IF region_exists
    THEN align_up(SharedMemoryHeaderSize, CACHE_LINE_SIZE) + Cardinality(DOMAIN ring)
    ELSE 0

\* the mapping and the Channel when Channel::open returns result.  Without a
\* mapping (the configuration was refused) nothing is released.  On an error
\* the local shm is destroyed: SharedMemory::close unmaps and closes the fd.
\* On Success the temporary Channel is moved into the Result by the defaulted
\* move constructor, which copies shared_memory_, and ~Channel of the
\* temporary unmaps; then the local shm is destroyed and unmaps again.
channel_after_open(c, result) ==
    IF ~c.mapped THEN c
    ELSE IF result = "Success"
    THEN [c EXCEPT !.pc = "result", !.mapped = FALSE, !.munmaps = @ + 2,
                   !.fd_closes = @ + 1, !.shared_memory_ = TRUE,
                   !.platform_handle_ = TRUE, !.header_ = TRUE,
                   !.ring_buffer_ = TRUE]
    ELSE [c EXCEPT !.pc = "failed", !.mapped = FALSE, !.munmaps = @ + 1,
                   !.fd_closes = @ + 1]

\* Channel::open of peer p returns result; on Success the peer's channel_ is set
open_return(p, result) ==
    /\ opening' = [opening EXCEPT ![p].pc = "done", ![p].result = result]
    /\ chan' = [chan EXCEPT ![p] = channel_after_open(chan[p], result)]
    /\ IF p = "sender"
       THEN /\ sender' = [sender EXCEPT !.open = (result = "Success")]
            /\ receiver' = receiver
       ELSE /\ receiver' = [receiver EXCEPT !.open = (result = "Success")]
            /\ sender' = sender

\* the other peer is not inside Channel::open
alone(p) == \A q \in Peers \ {p} : opening[q].pc \in {"start", "done"}

\* a variant of OpenStart that creates and sizes the region before it checks
\* the configuration
OpenStart_CreatesFirst(p) ==
    /\ opening[p].pc = "start"
    /\ ring' = ftruncate(ring, config_of(p).ring_buffer_size)
    /\ IF ~is_valid(config_of(p))
       THEN /\ config_valid' = "invalid"
            /\ open_return(p, "InvalidOperation")
       ELSE /\ config_valid' = "valid"
            /\ chan' = [chan EXCEPT ![p].pc = "opening", ![p].mapped = TRUE]
            /\ open_goto(p, "check_magic")
            /\ UNCHANGED <<sender, receiver>>
    /\ UNCHANGED <<hdr, validation, found, rx, tw, tr, send_result, read_result,
                   send_arg, nsends, sent, delivered>>

\* Channel::open: config.is_valid(), then create_or_open: shm_open(O_CREAT |
\* O_RDWR) opens the region or creates it, ftruncate sets its size to the
\* header and this peer's ring_buffer_size whether it is new or not, and
\* mmap maps it
OpenStart(p) ==
    /\ opening[p].pc = "start"
    /\ IF ~is_valid(config_of(p))
       THEN /\ config_valid' = "invalid"
            /\ open_return(p, "InvalidOperation")
            /\ ring' = ring
       ELSE /\ config_valid' = "valid"
            /\ ring' = ftruncate(ring, config_of(p).ring_buffer_size)
            /\ chan' = [chan EXCEPT ![p].pc = "opening", ![p].mapped = TRUE]
            /\ open_goto(p, "check_magic")
            /\ UNCHANGED <<sender, receiver>>
    /\ UNCHANGED <<hdr, validation, found, rx, tw, tr, send_result, read_result,
                   send_arg, nsends, sent, delivered>>

\* Channel::open: needs_init = (header->magic != SharedMemoryHeader::MAGIC)
OpenCheckMagic(p) ==
    /\ opening[p].pc = "check_magic"
    /\ LET needs_init == hdr.magic # MAGIC
       IN  opening' = [opening EXCEPT
                         ![p].needs_init = needs_init,
                         ![p].pc = IF needs_init THEN "memset" ELSE "validate"]
    /\ UNCHANGED <<hdr, ring, config_valid, validation, found, chan, rx, sender, receiver, tw, tr,
                   send_result, read_result, send_arg, nsends, sent, delivered>>

\* initialize_header: std::memset(header, 0, sizeof(SharedMemoryHeader))
InitMemset(p) ==
    /\ opening[p].pc = "memset"
    /\ hdr' = ZeroSharedHeader
    /\ opening' = [opening EXCEPT ![p].pc = "magic", ![p].inits = @ + 1]
    /\ UNCHANGED <<ring, config_valid, validation, found, chan, rx, sender, receiver, tw, tr, send_result,
                   read_result, send_arg, nsends, sent, delivered>>

\* initialize_header: header->magic = SharedMemoryHeader::MAGIC
InitMagic(p) ==
    /\ opening[p].pc = "magic"
    /\ hdr' = [hdr EXCEPT !.magic = MAGIC]
    /\ open_goto(p, "version")
    /\ UNCHANGED <<ring, config_valid, validation, found, chan, rx, sender, receiver, tw, tr, send_result,
                   read_result, send_arg, nsends, sent, delivered>>

\* initialize_header: header->version = PROTOCOL_VERSION.as_uint32()
InitVersion(p) ==
    /\ opening[p].pc = "version"
    /\ hdr' = [hdr EXCEPT !.version = as_uint32(PROTOCOL_VERSION)]
    /\ open_goto(p, "ring_buffer_size")
    /\ UNCHANGED <<ring, config_valid, validation, found, chan, rx, sender, receiver, tw, tr, send_result,
                   read_result, send_arg, nsends, sent, delivered>>

\* initialize_header: header->ring_buffer_size = ring_buffer_size
InitRingSize(p) ==
    /\ opening[p].pc = "ring_buffer_size"
    /\ hdr' = [hdr EXCEPT !.ring_buffer_size = config_of(p).ring_buffer_size]
    /\ open_goto(p, "write_index")
    /\ UNCHANGED <<ring, config_valid, validation, found, chan, rx, sender, receiver, tw, tr, send_result,
                   read_result, send_arg, nsends, sent, delivered>>

\* initialize_header: header->write_index.store(0, release)
InitWriteIndex(p) ==
    /\ opening[p].pc = "write_index"
    /\ hdr' = [hdr EXCEPT !.write_index = 0]
    /\ open_goto(p, "read_index")
    /\ UNCHANGED <<ring, config_valid, validation, found, chan, rx, sender, receiver, tw, tr, send_result,
                   read_result, send_arg, nsends, sent, delivered>>

\* initialize_header: header->read_index.store(0, release)
InitReadIndex(p) ==
    /\ opening[p].pc = "read_index"
    /\ hdr' = [hdr EXCEPT !.read_index = 0]
    /\ open_goto(p, "flags")
    /\ UNCHANGED <<ring, config_valid, validation, found, chan, rx, sender, receiver, tw, tr, send_result,
                   read_result, send_arg, nsends, sent, delivered>>

\* a variant of InitFlags that stores no flags
InitFlags_Dropped(p) ==
    /\ opening[p].pc = "flags"
    /\ hdr' = [hdr EXCEPT !.flags = 0]
    /\ open_goto(p, "sender_pid")
    /\ UNCHANGED <<ring, config_valid, validation, found, chan, rx, sender, receiver, tw, tr,
                   send_result, read_result, send_arg, nsends, sent, delivered>>

\* initialize_header: header->flags = flags
InitFlags(p) ==
    /\ opening[p].pc = "flags"
    /\ hdr' = [hdr EXCEPT !.flags = config_of(p).flags]
    /\ open_goto(p, "sender_pid")
    /\ UNCHANGED <<ring, config_valid, validation, found, chan, rx, sender, receiver, tw, tr, send_result,
                   read_result, send_arg, nsends, sent, delivered>>

\* initialize_header: header->sender_pid = getpid()
InitSenderPid(p) ==
    /\ opening[p].pc = "sender_pid"
    /\ hdr' = [hdr EXCEPT !.sender_pid = getpid(p)]
    /\ open_goto(p, "handshake")
    /\ UNCHANGED <<ring, config_valid, validation, found, chan, rx, sender, receiver, tw, tr, send_result,
                   read_result, send_arg, nsends, sent, delivered>>

\* Channel::open: validate_header of a header found with the magic set
OpenValidate(p) ==
    /\ opening[p].pc = "validate"
    /\ LET validate_result == validate_header(hdr)
       IN  IF validate_result # "Success"
           THEN open_return(p, validate_result)
           ELSE open_goto(p, "handshake") /\ UNCHANGED <<sender, receiver, chan>>
    /\ UNCHANGED <<hdr, ring, config_valid, validation, found, rx, tw, tr, send_result,
                   read_result, send_arg, nsends, sent, delivered>>

\* Channel::open: sender_handshake, then the Channel is constructed
OpenHandshake(p) ==
    /\ opening[p].pc = "handshake"
    /\ open_return(p, sender_handshake(hdr))
    /\ UNCHANGED <<hdr, ring, config_valid, validation, found, rx, tw, tr, send_result,
                   read_result, send_arg, nsends, sent, delivered>>

\* the configuration both peers attach with: accepted, and refused
AttachConfigs ==
    {ChannelConfig(4096, 64, 0),
     ChannelConfig(4096, 4090, 0)}

AttachSizes(c) == {3}

\* a name no region exists for yet; neither peer has called Channel::open
InitAttach ==
    \E c \in AttachConfigs :
        /\ hdr = ZeroSharedHeader
        /\ ring = <<>>
        /\ config_valid = "unchecked"
        /\ opening = [sender |-> not_opened, receiver |-> not_opened]
        /\ validation = no_validation
        /\ found = no_region
        /\ chan = no_channels
        /\ rx = rx_idle
        /\ sender = [config_ |-> c, open |-> FALSE]
        /\ receiver = [config_ |-> c, open |-> FALSE, messages_received |-> 0]
        /\ send_arg = [n |-> 0, b |-> 0]
        /\ tw = tw_idle
        /\ tr = tr_idle
        /\ send_result = "none"
        /\ read_result = "none"
        /\ nsends = 0
        /\ sent = <<>>
        /\ delivered = <<>>

NextAttach ==
    \/ \E p \in Peers : OpenStart(p)
    \/ \E p \in Peers : OpenCheckMagic(p)
    \/ \E p \in Peers : InitMemset(p)
    \/ \E p \in Peers : InitMagic(p)
    \/ \E p \in Peers : InitVersion(p)
    \/ \E p \in Peers : InitRingSize(p)
    \/ \E p \in Peers : InitWriteIndex(p)
    \/ \E p \in Peers : InitReadIndex(p)
    \/ \E p \in Peers : InitFlags(p)
    \/ \E p \in Peers : InitSenderPid(p)
    \/ \E p \in Peers : OpenValidate(p)
    \/ \E p \in Peers : OpenHandshake(p)
    \/ \E n \in AttachSizes(sender.config_) :
          opening["sender"].pc = "done" /\ nsends < MaxAttachSends /\ Send(n)
    \/ TryWriteCheck
    \/ TryWriteHeader
    \/ TryWritePayload
    \/ TryWritePublish

SpecAttach == InitAttach /\ [][NextAttach]_vars

\* ------------------------------------------- attach to an existing region

\* a region of n ring bytes that nothing was written to
ZeroRing(n) == [i \in 0..(n - 1) |-> 0]

\* the ring an earlier run left: one frame of three payload bytes at offset 0
StaleRing(n) ==
    LET h == [magic |-> MAGIC, size |-> 3, sequence |-> 0,
              timestamp |-> get_timestamp_ns(0), checksum |-> 0, reserved |-> 0]
    IN  write_bytes(write_bytes(ZeroRing(n), n, n - 1, HeaderBytes(h),
                                MessageHeaderSize, 0),
                    n, n - 1, Bytes(DataOfCall(0, 3)), 3, MessageHeaderSize)

\* the header an earlier run left: initialised by process OtherPid, one frame
\* published and not consumed
LiveHeader(n) ==
    [initialize_header(n, 0, OtherPid) EXCEPT
        !.write_index = align_up(MessageHeaderSize + 3, PayloadAlign)]

\* a header that is neither zero nor one of this protocol
GarbageHeader ==
    [magic |-> MAGIC + 1, version |-> 7, ring_buffer_size |-> 4096,
     write_index |-> 40, read_index |-> 8, sender_pid |-> OtherPid,
     receiver_pid |-> OtherPid + 1, flags |-> 3, reserved |-> 1]

\* a region with header h and ring r
region(h, r) ==
    [exists |-> TRUE, hdr |-> h,
     size |-> align_up(SharedMemoryHeaderSize, CACHE_LINE_SIZE) + Cardinality(DOMAIN r),
     ring |-> r]

\* what a peer can find under the channel's name: nothing, a region created
\* and never initialised, a region of an earlier run with a ring of 4096 or
\* of 8192 bytes, and a region holding something else
ExistingRegions ==
    {no_region,
     region(ZeroSharedHeader, ZeroRing(4096)),
     region(LiveHeader(4096), StaleRing(4096)),
     region(LiveHeader(8192), StaleRing(8192)),
     region(GarbageHeader, StaleRing(4096))}

\* configurations around every threshold of is_valid, with flags inside
\* ChannelFlags, combining two of them, and outside them
OpenConfigs ==
    {ChannelConfig(r, m, f) :
        r \in {2048, 4096, 6144, 8192},
        m \in {63, 64, 2047, 2048, 4095, 4096},
        f \in {0, 5, 16}}

\* neither peer has called Channel::open; both use the same configuration
InitOpen ==
    \E c \in OpenConfigs, e \in ExistingRegions :
        /\ hdr = e.hdr
        /\ ring = e.ring
        /\ config_valid = "unchecked"
        /\ opening = [sender |-> not_opened, receiver |-> not_opened]
        /\ validation = no_validation
        /\ found = e
        /\ chan = no_channels
        /\ rx = rx_idle
        /\ sender = [config_ |-> c, open |-> FALSE]
        /\ receiver = [config_ |-> c, open |-> FALSE, messages_received |-> 0]
        /\ send_arg = [n |-> 0, b |-> 0]
        /\ tw = tw_idle
        /\ tr = tr_idle
        /\ send_result = "none"
        /\ read_result = "none"
        /\ nsends = 0
        /\ sent = <<>>
        /\ delivered = <<>>

\* the peers attach one after the other, in either order
NextOpen ==
    \/ \E p \in Peers : alone(p) /\ OpenStart(p)
    \/ \E p \in Peers : OpenCheckMagic(p)
    \/ \E p \in Peers : InitMemset(p)
    \/ \E p \in Peers : InitMagic(p)
    \/ \E p \in Peers : InitVersion(p)
    \/ \E p \in Peers : InitRingSize(p)
    \/ \E p \in Peers : InitWriteIndex(p)
    \/ \E p \in Peers : InitReadIndex(p)
    \/ \E p \in Peers : InitFlags(p)
    \/ \E p \in Peers : InitSenderPid(p)
    \/ \E p \in Peers : OpenValidate(p)
    \/ \E p \in Peers : OpenHandshake(p)

SpecOpen == InitOpen /\ [][NextOpen]_vars

\* -------------------------------------------------------- Channel lifetime

\* Channel::is_open
is_open(c) == c.shared_memory_

\* a variant of Channel_close that unmaps and keeps shared_memory_
Channel_close_KeepsPointer(c) ==
    [c EXCEPT !.mapped = IF c.shared_memory_ THEN FALSE ELSE @,
              !.munmaps = IF c.shared_memory_ THEN @ + 1 ELSE @,
              !.platform_handle_ = FALSE,
              !.header_ = FALSE,
              !.ring_buffer_ = FALSE,
              !.closes = @ + 1]

\* Channel::close on POSIX: munmap(shared_memory_, total_size_) when
\* shared_memory_ is set; platform_handle_ holds -1, so no fd is closed; all
\* four members end null
Channel_close(c) ==
    [c EXCEPT !.mapped = IF c.shared_memory_ THEN FALSE ELSE @,
              !.munmaps = IF c.shared_memory_ THEN @ + 1 ELSE @,
              !.shared_memory_ = FALSE,
              !.platform_handle_ = FALSE,
              !.header_ = FALSE,
              !.ring_buffer_ = FALSE,
              !.closes = @ + 1]

\* the peer's Channel object exists: inside the Result Channel::open
\* returned, or moved out of it
has_channel(p) == chan[p].pc \in {"result", "held"}

\* an explicit call of Channel::close
ChannelClose(p) ==
    /\ has_channel(p)
    /\ chan[p].closes < MaxCloses
    /\ chan' = [chan EXCEPT ![p] = Channel_close(chan[p])]
    /\ UNCHANGED <<hdr, ring, config_valid, opening, validation, found, rx, sender,
                   receiver, tw, tr, send_result, read_result, send_arg, nsends, sent,
                   delivered>>

\* Sender::Sender and Receiver::Impl::Impl after Channel::open returned ok:
\* channel_ = make_unique<Channel>(std::move(result.value())) builds a new
\* Channel with the defaulted move constructor, which copies the raw pointers
\* and takes the ring_buffer_; at the end of the constructor the Result is
\* destroyed and ~Channel of its value_ runs close() on the pointers it kept
Adopt(p) ==
    /\ chan[p].pc = "result"
    /\ chan' = [chan EXCEPT
                  ![p].pc = "held",
                  ![p].mapped = IF chan[p].shared_memory_ THEN FALSE ELSE @,
                  ![p].munmaps = IF chan[p].shared_memory_ THEN @ + 1 ELSE @,
                  ![p].closes = 0]
    /\ UNCHANGED <<hdr, ring, config_valid, opening, validation, found, rx, sender,
                   receiver, tw, tr, send_result, read_result, send_arg, nsends, sent,
                   delivered>>

\* ~Channel() { close(); } of the peer's Channel
ChannelDestroy(p) ==
    /\ has_channel(p)
    /\ chan' = [chan EXCEPT ![p] = [Channel_close(chan[p]) EXCEPT !.pc = "destroyed"]]
    /\ UNCHANGED <<hdr, ring, config_valid, opening, validation, found, rx, sender,
                   receiver, tw, tr, send_result, read_result, send_arg, nsends, sent,
                   delivered>>

\* configurations the peers attach with: accepted ones, and a refused one
CloseConfigs ==
    {ChannelConfig(4096, 64, 0),
     ChannelConfig(4096, 2047, 5),
     ChannelConfig(4096, 4090, 0)}

\* what the peers find: nothing, or a region of an earlier run
ClosedRegions == {no_region, region(LiveHeader(4096), StaleRing(4096))}

InitClose ==
    \E c \in CloseConfigs, e \in ClosedRegions :
        /\ hdr = e.hdr
        /\ ring = e.ring
        /\ config_valid = "unchecked"
        /\ opening = [sender |-> not_opened, receiver |-> not_opened]
        /\ validation = no_validation
        /\ found = e
        /\ chan = no_channels
        /\ rx = rx_idle
        /\ sender = [config_ |-> c, open |-> FALSE]
        /\ receiver = [config_ |-> c, open |-> FALSE, messages_received |-> 0]
        /\ send_arg = [n |-> 0, b |-> 0]
        /\ tw = tw_idle
        /\ tr = tr_idle
        /\ send_result = "none"
        /\ read_result = "none"
        /\ nsends = 0
        /\ sent = <<>>
        /\ delivered = <<>>

\* each peer attaches, then its Channel is closed, moved and destroyed
NextClose ==
    \/ \E p \in Peers : alone(p) /\ OpenStart(p)
    \/ \E p \in Peers : OpenCheckMagic(p)
    \/ \E p \in Peers : InitMemset(p)
    \/ \E p \in Peers : InitMagic(p)
    \/ \E p \in Peers : InitVersion(p)
    \/ \E p \in Peers : InitRingSize(p)
    \/ \E p \in Peers : InitWriteIndex(p)
    \/ \E p \in Peers : InitReadIndex(p)
    \/ \E p \in Peers : InitFlags(p)
    \/ \E p \in Peers : InitSenderPid(p)
    \/ \E p \in Peers : OpenValidate(p)
    \/ \E p \in Peers : OpenHandshake(p)
    \/ \E p \in Peers : ChannelClose(p)
    \/ \E p \in Peers : Adopt(p)
    \/ \E p \in Peers : ChannelDestroy(p)

SpecClose == InitClose /\ [][NextClose]_vars

\* ------------------------------------------------- start_async and stop

\* std::thread::joinable of worker_thread_: a thread was started and not joined
joinable == rx.worker # "none"

\* a variant of StartAsync that creates a worker thread whether or not
\* worker_thread_ is joinable
StartAsync_NoCheck ==
    /\ rx.stop # "join"
    /\ rx.starts < MaxStarts
    /\ rx' = [rx EXCEPT !.worker = "spawned", !.threads = @ + 1,
                        !.start_result = "Success", !.starts = @ + 1]
    /\ UNCHANGED <<hdr, ring, config_valid, opening, validation, found, chan, sender,
                   receiver, tw, tr, send_result, read_result, send_arg, nsends, sent,
                   delivered>>

\* Receiver::Impl::start_async, called while the caller is not inside stop:
\* InvalidOperation when worker_thread_ is joinable, else the worker thread
\* is created and the call returns
StartAsync ==
    /\ rx.stop # "join"
    /\ rx.starts < MaxStarts
    /\ rx' = IF joinable
             THEN [rx EXCEPT !.start_result = "InvalidOperation", !.starts = @ + 1]
             ELSE [rx EXCEPT !.worker = "spawned", !.threads = @ + 1,
                             !.start_result = "Success", !.starts = @ + 1]
    /\ UNCHANGED <<hdr, ring, config_valid, opening, validation, found, chan, sender,
                   receiver, tw, tr, send_result, read_result, send_arg, nsends, sent,
                   delivered>>

\* the worker thread enters start(handler): the channel check, then
\* running_.store(true, release) and the buffer
WorkerStart ==
    /\ rx.worker = "spawned"
    /\ rx' = IF ~receiver.open
             THEN [rx EXCEPT !.worker = "exited"]
             ELSE [rx EXCEPT !.running_ = TRUE, !.worker = "loop"]
    /\ UNCHANGED <<hdr, ring, config_valid, opening, validation, found, chan, sender,
                   receiver, tw, tr, send_result, read_result, send_arg, nsends, sent,
                   delivered>>

\* start's loop test while (running_.load(acquire)): when true, the
\* iteration's try_read begins, up to its first shared load; when false,
\* start returns and the thread ends
WorkerLoop ==
    /\ rx.worker = "loop"
    /\ tr.pc = "idle"
    /\ IF rx.running_
       THEN /\ read_result' = "pending"
            /\ tr' = [tr_idle EXCEPT
                        !.pc = "load_write",
                        !.buffer = [i \in 1..receiver.config_.max_message_size |-> 0],
                        !.data_size = receiver.config_.max_message_size,
                        !.current_read = hdr.read_index]
            /\ rx' = rx
       ELSE /\ rx' = [rx EXCEPT !.worker = "exited"]
            /\ UNCHANGED <<tr, read_result>>
    /\ UNCHANGED <<hdr, ring, config_valid, opening, validation, found, chan, sender,
                   receiver, tw, send_result, send_arg, nsends, sent, delivered>>

\* Receiver::Impl::stop: running_.store(false, release), then join when
\* worker_thread_ is joinable
Stop ==
    /\ rx.stop # "join"
    /\ rx' = [rx EXCEPT !.running_ = FALSE,
                        !.stop = IF joinable THEN "join" ELSE "returned"]
    /\ UNCHANGED <<hdr, ring, config_valid, opening, validation, found, chan, sender,
                   receiver, tw, tr, send_result, read_result, send_arg, nsends, sent,
                   delivered>>

\* worker_thread_.join() returns once the worker thread has ended
StopJoin ==
    /\ rx.stop = "join"
    /\ rx.worker = "exited"
    /\ rx' = [rx EXCEPT !.worker = "none", !.threads = @ - 1, !.stop = "returned"]
    /\ UNCHANGED <<hdr, ring, config_valid, opening, validation, found, chan, sender,
                   receiver, tw, tr, send_result, read_result, send_arg, nsends, sent,
                   delivered>>

\* Receiver::Impl::is_running
is_running == rx.running_

AsyncConfigs == {ChannelConfig(4096, 64, 0)}

AsyncSizes(c) == {3}

InitAsync == InitWith(AsyncConfigs)

NextAsync ==
    \/ \E n \in AsyncSizes(sender.config_) : nsends < MaxAsyncSends /\ Send(n)
    \/ TryWriteCheck
    \/ TryWriteHeader
    \/ TryWritePayload
    \/ TryWritePublish
    \/ StartAsync
    \/ WorkerStart
    \/ WorkerLoop
    \/ TryReadCheck
    \/ TryReadHeader
    \/ TryReadPayload
    \/ TryReadAdvance
    \/ Stop
    \/ StopJoin

\* the next step of the worker thread
WorkerStep ==
    \/ WorkerStart
    \/ WorkerLoop
    \/ TryReadCheck
    \/ TryReadHeader
    \/ TryReadPayload
    \/ TryReadAdvance

\* the scheduler runs the worker thread while it has a step to take, and
\* join returns once the worker thread has ended
SpecAsync ==
    /\ InitAsync
    /\ [][NextAsync]_vars
    /\ WF_vars(WorkerStep)
    /\ WF_vars(StopJoin)

\* ------------------------------------------- receiver before the sender

\* the shared accesses of a peer's call in progress go through its Channel
accessing(p) ==
    IF p = "sender"
    THEN tw.pc \in {"load_read", "write_header", "write_payload", "publish"}
    ELSE tr.pc \in {"load_write", "read_header", "read_payload", "advance"}

\* A peer dereferences header_ or the ring through a held Channel whose
\* region is no longer mapped in its process.  The behaviour is undefined:
\* either the access goes on as the other actions describe, or, here, the
\* process takes SIGSEGV and its thread takes no further step.
Fault(p) ==
    /\ chan[p].pc = "held"
    /\ ~chan[p].mapped
    /\ accessing(p)
    /\ IF p = "sender"
       THEN /\ tw' = [tw EXCEPT !.pc = "fault"]
            /\ UNCHANGED <<tr, rx>>
       ELSE /\ tr' = [tr EXCEPT !.pc = "fault"]
            /\ rx' = [rx EXCEPT !.worker = "fault"]
            /\ tw' = tw
    /\ UNCHANGED <<hdr, ring, config_valid, opening, validation, found, chan, sender,
                   receiver, send_result, read_result, send_arg, nsends, sent, delivered>>

FirstConfigs == {ChannelConfig(4096, 64, 0)}

FirstSizes(c) == {3}

\* a name no region exists for; neither peer is constructed
InitFirst ==
    \E c \in FirstConfigs :
        /\ hdr = ZeroSharedHeader
        /\ ring = <<>>
        /\ config_valid = "unchecked"
        /\ opening = [sender |-> not_opened, receiver |-> not_opened]
        /\ validation = no_validation
        /\ found = no_region
        /\ chan = no_channels
        /\ rx = rx_idle
        /\ sender = [config_ |-> c, open |-> FALSE]
        /\ receiver = [config_ |-> c, open |-> FALSE, messages_received |-> 0]
        /\ send_arg = [n |-> 0, b |-> 0]
        /\ tw = tw_idle
        /\ tr = tr_idle
        /\ send_result = "none"
        /\ read_result = "none"
        /\ nsends = 0
        /\ sent = <<>>
        /\ delivered = <<>>

\* the Receiver is constructed and start_async has returned before the
\* Sender is constructed
constructible(p) == p = "receiver" \/ rx.starts > 0

\* the Receiver is constructed and started, then the Sender is constructed
\* and sends; stop is not called
NextFirst ==
    \/ \E p \in Peers : constructible(p) /\ OpenStart(p)
    \/ \E p \in Peers : OpenCheckMagic(p)
    \/ \E p \in Peers : InitMemset(p)
    \/ \E p \in Peers : InitMagic(p)
    \/ \E p \in Peers : InitVersion(p)
    \/ \E p \in Peers : InitRingSize(p)
    \/ \E p \in Peers : InitWriteIndex(p)
    \/ \E p \in Peers : InitReadIndex(p)
    \/ \E p \in Peers : InitFlags(p)
    \/ \E p \in Peers : InitSenderPid(p)
    \/ \E p \in Peers : OpenValidate(p)
    \/ \E p \in Peers : OpenHandshake(p)
    \/ \E p \in Peers : Adopt(p)
    \/ chan["receiver"].pc = "held" /\ StartAsync
    \/ WorkerStart
    \/ WorkerLoop
    \/ TryReadCheck
    \/ TryReadHeader
    \/ TryReadPayload
    \/ TryReadAdvance
    \/ \E n \in FirstSizes(sender.config_) :
          chan["sender"].pc = "held" /\ nsends < MaxFirstSends /\ Send(n)
    \/ TryWriteCheck
    \/ TryWriteHeader
    \/ TryWritePayload
    \/ TryWritePublish
    \/ \E p \in Peers : Fault(p)

\* the constructors run to their end, the scheduler runs the worker thread
\* while it has a step to take, and a send in progress is completed
SpecFirst ==
    /\ InitFirst
    /\ [][NextFirst]_vars
    /\ WF_vars(WorkerStep)
    /\ WF_vars(ProducerStep)

\* ------------------------------------------------------ header validation

\* protocol versions of the build that initialised a region: majors around
\* this build's, minors and patches around the 8 bits as_uint32 gives them
VersionInputs ==
    {[major |-> a, minor |-> b, patch |-> c] :
        a \in {0, 1, 2}, b \in {0, 1, 255, 256, 512, 65535},
        c \in {0, 255, 256, 65535}}

\* protocol versions of the build that validates: this one, one of the same
\* major, one of another major
PeerVersions ==
    {PROTOCOL_VERSION,
     [major |-> 1, minor |-> 65535, patch |-> 65535],
     [major |-> 2, minor |-> 0, patch |-> 0]}

\* magic values found in a header: the sentinel, none, and a wrong one
MagicInputs == {MAGIC, 0, MAGIC + 1}

\* ring_buffer_size values found in a header
HeaderRingSizes == {0, 1, 4096, 4097, 6144}

\* a header as a build with PROTOCOL_VERSION = writer initialised it, with
\* the magic and ring size found there
InitValidate ==
    \E writer \in VersionInputs, peer \in PeerVersions,
       magic \in MagicInputs, r \in HeaderRingSizes :
        /\ hdr = [initialize_header(r, 0, SenderPid) EXCEPT
                    !.magic = magic, !.version = as_uint32(writer)]
        /\ ring = <<>>
        /\ config_valid = "unchecked"
        /\ opening = [sender |-> not_opened, receiver |-> not_opened]
        /\ validation = [writer |-> writer, peer |-> peer, result |-> "none"]
        /\ found = no_region
        /\ chan = no_channels
        /\ rx = rx_idle
        /\ sender = [config_ |-> ChannelConfig(r, 64, 0),
                     open |-> FALSE]
        /\ receiver = [config_ |-> sender.config_, open |-> FALSE,
                       messages_received |-> 0]
        /\ send_arg = [n |-> 0, b |-> 0]
        /\ tw = tw_idle
        /\ tr = tr_idle
        /\ send_result = "none"
        /\ read_result = "none"
        /\ nsends = 0
        /\ sent = <<>>
        /\ delivered = <<>>

\* the peer build calls Handshake::validate_header(header)
ValidateHeader ==
    /\ validation.result = "none"
    /\ validation' = [validation EXCEPT
                        !.result = validate_header_of(validation.peer, hdr)]
    /\ UNCHANGED <<hdr, ring, config_valid, opening, found, chan, rx, sender, receiver, tw, tr,
                   send_result, read_result, send_arg, nsends, sent, delivered>>

NextValidate == ValidateHeader

SpecValidate == InitValidate /\ [][NextValidate]_vars

\* -------------------------------------------------- the configuration check

\* ring sizes and message sizes around every threshold of is_valid
RingSizeInputs ==
    {0, 1, 1024, 2048, 4095, 4096, 4097, 6144, 8192, 65536, 1048576}

MessageSizeInputs(ring_buffer_size) ==
    {n \in {0, 1, 63, 64, 65, 1000, 65536,
            ring_buffer_size \div 2 - 33, ring_buffer_size \div 2 - 32,
            ring_buffer_size \div 2 - 31, ring_buffer_size \div 2 - 1,
            ring_buffer_size \div 2, ring_buffer_size \div 2 + 1,
            ring_buffer_size - 1, ring_buffer_size} : n >= 0}

\* a ChannelConfig somebody wrote, before Channel::open looked at it
InitConfig ==
    \E r \in RingSizeInputs :
      \E m \in MessageSizeInputs(r) :
        LET c == ChannelConfig(r, m, 0)
        IN  /\ hdr = ZeroSharedHeader
            /\ ring = <<>>
            /\ config_valid = "unchecked"
            /\ opening = [sender |-> not_opened, receiver |-> not_opened]
            /\ validation = no_validation
            /\ found = no_region
            /\ chan = no_channels
            /\ rx = rx_idle
            /\ sender = [config_ |-> c, open |-> FALSE]
            /\ receiver = [config_ |-> c, open |-> FALSE, messages_received |-> 0]
            /\ send_arg = [n |-> 0, b |-> 0]
            /\ tw = tw_idle
            /\ tr = tr_idle
            /\ send_result = "none"
            /\ read_result = "none"
            /\ nsends = 0
            /\ sent = <<>>
            /\ delivered = <<>>

\* the config.is_valid() call at the top of Channel::open
CheckConfig ==
    /\ config_valid = "unchecked"
    /\ config_valid' = IF is_valid(sender.config_) THEN "valid" ELSE "invalid"
    /\ UNCHANGED <<hdr, ring, opening, validation, found, chan, rx, sender, receiver, tw, tr, send_result,
                   read_result, send_arg, nsends, sent, delivered>>

NextConfig == CheckConfig

SpecConfig == InitConfig /\ [][NextConfig]_vars

\* ------------------------------------------------------------- properties

\* the ring position of an absolute index
Position(index) == index % hdr.ring_buffer_size

\* the frame size of a payload of n bytes, 32 + align_up(n, 8)
FrameSize(n) == 32 + ((n + 7) \div 8) * 8

\* the consumer is inside try_read, past the empty check
Reading == tr.pc \in {"read_header", "read_payload", "advance"}

\* the producer is inside try_write, past the space check
Writing == tw.pc \in {"write_header", "write_payload", "publish"}

\* C1: under every interleaving of sends and reads, the payloads passed to
\* the handler so far are a prefix of the payloads of the successful sends:
\* nothing lost, duplicated or reordered.
C1_DeliveredIsPrefixOfSent ==
    /\ Len(delivered) <= Len(sent)
    /\ \A k \in 1..Len(delivered) : delivered[k] = Bytes(sent[k].payload)

\* two frames were delivered while a third one is already published
C1_Witness ==
    /\ Len(delivered) = 2
    /\ Len(sent) = 3
    /\ delivered[1] # delivered[2]

\* C2: a read after a successful send of P copies out |P| bytes equal to P,
\* also when the header or the payload of the frame is split at the physical
\* end of the ring.
C2_RoundTrip ==
    tr.pc = "advance" =>
        /\ Len(sent) > Len(delivered)
        /\ LET P == sent[Len(delivered) + 1].payload
           IN  /\ tr.msg_header.size = P.n
               /\ SubSeq(tr.buffer, 1, tr.msg_header.size) = Bytes(P)

\* a frame was copied out whose 32-byte header straddles the end of the ring
C2_Witness ==
    /\ tr.pc = "advance"
    /\ Position(tr.current_read) + 32 > hdr.ring_buffer_size
    /\ tr.msg_header.size > 0

\* C3: 0 <= write_index - read_index <= ring_size in every reachable state.
C3_OccupancyWithinRing ==
    /\ hdr.read_index <= hdr.write_index
    /\ hdr.write_index - hdr.read_index <= hdr.ring_buffer_size

\* after a first frame was consumed the ring is filled beyond half again
C3_Witness ==
    /\ hdr.read_index > 0
    /\ 2 * (hdr.write_index - hdr.read_index) > hdr.ring_buffer_size

\* C4: the consumer only reads frames whose write_index store has happened:
\* the frame it works on lies below write_index, and the header and payload
\* it copied are the ones the producer wrote for that frame.
C4_ReadFramesArePublished ==
    /\ Reading => tr.current_read < hdr.write_index
    /\ tr.pc \in {"read_payload", "advance"} =>
        /\ Len(sent) > Len(delivered)
        /\ LET f == sent[Len(delivered) + 1]
           IN  /\ tr.msg_header =
                     [magic |-> MAGIC, size |-> f.payload.n,
                      sequence |-> f.sequence, timestamp |-> f.timestamp,
                      checksum |-> 0, reserved |-> 0]
               /\ f.sequence = tr.current_read
               /\ tr.current_read + FrameSize(f.payload.n) <= hdr.write_index
               /\ Writing => hdr.write_index <= tw.current_write

\* the consumer copies a frame out while the producer is copying the next in
C4_Witness ==
    /\ tr.pc = "read_payload"
    /\ tw.pc = "write_payload"
    /\ tr.current_read > 0

\* the ring positions of the absolute indices lo..hi-1
Positions(lo, hi) == {Position(i) : i \in lo..(hi - 1)}

\* C5: the positions try_write copies to never lie in the published and
\* unconsumed range [read_index, write_index), also when the read_index it
\* loaded is stale and while the consumer is copying a frame out.
C5_NoOverwriteOfUnread ==
    Writing =>
        Positions(tw.current_write,
                  tw.current_write + 32 + tw.data_size)
            \cap Positions(hdr.read_index, hdr.write_index) = {}

\* the producer writes with a stale read_index while the consumer is
\* copying the next unread frame out
C5_Witness ==
    /\ tw.pc = "write_payload"
    /\ tw.current_read < hdr.read_index
    /\ tr.pc = "read_payload"

\* the free space of the ring, from the header
FreeSpace == hdr.ring_buffer_size - (hdr.write_index - hdr.read_index)

\* C6: a send that finds less free space than 32 + align_up(size, 8) returns
\* ChannelFull, and neither step of that call changes the header (indices
\* included) or any ring byte.
C6_FullSendChangesNothing ==
    [][/\ (tw.pc = "idle" /\ tw'.pc = "load_read") => (hdr' = hdr /\ ring' = ring)
       /\ (tw.pc = "load_read" /\ tw' # tw /\ FreeSpace < FrameSize(tw.data_size))
            => /\ send_result' = "ChannelFull"
               /\ tw'.pc = "idle"
               /\ hdr' = hdr
               /\ ring' = ring
               /\ sent' = sent]_vars

\* a send returned ChannelFull on a ring that holds unread frames
C6_Witness ==
    /\ send_result = "ChannelFull"
    /\ tw.pc = "idle"
    /\ Len(sent) > Len(delivered)
    /\ FreeSpace < FrameSize(send_arg.n)

\* C7: on an open channel a send of more than max_message_size bytes returns
\* MessageTooLarge in its first step and leaves the header and the ring as
\* they are; no send of an allowed size returns MessageTooLarge.
C7_OversizeSendHasNoEffect ==
    [][nsends' # nsends =>
         IF sender.open /\ send_arg'.n > sender.config_.max_message_size
         THEN /\ send_result' = "MessageTooLarge"
              /\ tw'.pc = "idle"
              /\ hdr' = hdr
              /\ ring' = ring
              /\ sent' = sent
         ELSE send_result' # "MessageTooLarge"]_vars

\* an oversize send was rejected while the ring was more than half full
C7_Witness ==
    /\ send_result = "MessageTooLarge"
    /\ send_arg.n = sender.config_.max_message_size + 1
    /\ 2 * FreeSpace < hdr.ring_buffer_size

\* C8 as stated: every accepted configuration has
\* max_message_size + 32 <= ring_size / 2.
C8_AcceptedFitsHalfRing ==
    config_valid = "valid" =>
        sender.config_.max_message_size + 32 <= sender.config_.ring_buffer_size \div 2

\* C8 as the check implements it: every accepted configuration has
\* max_message_size < ring_size / 2 and ring_size >= 4096, so that a frame of
\* an allowed message is at most ring_size / 2 + 32 bytes and fits in the ring.
C8_AcceptedBelowHalfRing ==
    config_valid = "valid" =>
        LET c == sender.config_
        IN  /\ c.max_message_size + 1 <= c.ring_buffer_size \div 2
            /\ FrameSize(c.max_message_size) <= c.ring_buffer_size \div 2 + 32
            /\ FrameSize(c.max_message_size) <= c.ring_buffer_size

\* an accepted configuration whose largest frame is longer than half the ring
C8_Witness ==
    /\ config_valid = "valid"
    /\ sender.config_.max_message_size + 32 > sender.config_.ring_buffer_size \div 2

\* C9: with an accepted configuration, a send of exactly max_message_size
\* bytes that finds the ring empty is not refused at any step: it enters
\* try_write, passes the space check and returns Success.
C9_MaxSizeSendOnEmptyRing ==
    [][/\ (nsends' # nsends /\ config_valid = "valid"
             /\ send_arg'.n = sender.config_.max_message_size)
            => tw'.pc = "load_read"
       /\ (tw.pc = "load_read" /\ tw' # tw
             /\ tw.data_size = sender.config_.max_message_size
             /\ hdr.write_index = hdr.read_index)
            => (tw'.pc = "write_header" /\ send_result' = "pending")
       /\ (tw.pc = "publish" /\ tw' # tw)
            => /\ send_result' = "Success"
               /\ hdr'.write_index = hdr.write_index + FrameSize(tw.data_size)]_vars

\* a frame of max_message_size bytes that wraps around the end of the ring
\* was sent into the empty ring
C9_Witness ==
    /\ send_result = "Success"
    /\ tw.pc = "idle"
    /\ Len(sent) > 0
    /\ LET f == sent[Len(sent)]
       IN  /\ f.payload.n = sender.config_.max_message_size
           /\ f.sequence = hdr.read_index
           /\ f.sequence > 0
           /\ Position(f.sequence) + FrameSize(f.payload.n) > hdr.ring_buffer_size

\* C10: a full ring is transient.  A send finds room as soon as the free
\* space is at least its frame size; with the consumer polling and the
\* caller retrying, a send that returned ChannelFull leads to a Success of
\* the same data, and again and again every frame sent so far, that one
\* included, has been delivered unchanged.
C10_FullIsTransient ==
    /\ [][(tw.pc = "load_read" /\ tw' # tw /\ FreeSpace >= FrameSize(tw.data_size))
            => tw'.pc = "write_header"]_vars
    /\ (send_result = "ChannelFull")
          ~> (/\ send_result = "Success"
              /\ Len(sent) > 0
              /\ sent[Len(sent)].payload = send_arg)
    /\ []<>(/\ Len(delivered) = Len(sent)
            /\ \A k \in 1..Len(sent) : delivered[k] = Bytes(sent[k].payload))

\* the retried send succeeded after the consumer made room
C10_Witness ==
    /\ send_result = "Success"
    /\ nsends = 2
    /\ Len(sent) = 2
    /\ sent[2].payload = send_arg
    /\ sent[2].payload.n = sender.config_.max_message_size
    /\ sent[1].payload.n = sender.config_.max_message_size
    /\ Len(delivered) >= 1

\* C11: what available_space returns to the producer changes only as follows
\* while the consumer takes no step: the step of a send that returns Success
\* lowers it by exactly 32 + align_up(size, 8), and no other step of a send,
\* successful or refused, changes it.
C11_SendLowersFreeSpaceByFrameSize ==
    [][tr' = tr =>
         IF tw.pc = "publish" /\ tw' # tw
         THEN /\ send_result' = "Success"
              /\ available_space(sender, hdr')
                   = available_space(sender, hdr) - FrameSize(tw.data_size)
         ELSE available_space(sender, hdr') = available_space(sender, hdr)]_vars

\* three sends, one of them of a size that is not a multiple of 8, have
\* succeeded with no read in between, and the free space is what is left
C11_Witness ==
    /\ send_result = "Success"
    /\ tw.pc = "idle"
    /\ Len(sent) = 3
    /\ hdr.read_index = 0
    /\ \E k \in 1..3 : sent[k].payload.n % 8 # 0
    /\ available_space(sender, hdr)
         = hdr.ring_buffer_size - FrameSize(sent[1].payload.n)
             - FrameSize(sent[2].payload.n) - FrameSize(sent[3].payload.n)

\* C12: the sequence field of a frame is write_index at the time it was
\* framed.  The first frame of a fresh region has sequence 0, each next one
\* the previous sequence plus the previous frame's 32 + align_up(size, 8),
\* and the header the consumer reads for the k-th delivery carries the k-th
\* of these values: strictly increasing, no gaps.
C12_SequenceIsWriteIndex ==
    /\ Writing => tw.msg_header.sequence = hdr.write_index
    /\ \A k \in 1..Len(sent) :
          sent[k].sequence =
              IF k = 1 THEN 0
              ELSE sent[k - 1].sequence + FrameSize(sent[k - 1].payload.n)
    /\ tr.pc \in {"read_payload", "advance"} =>
          /\ Len(sent) > Len(delivered)
          /\ tr.msg_header.sequence = sent[Len(delivered) + 1].sequence

\* the consumer holds the header of the third frame, whose sequence is the
\* sum of the two frame sizes before it, one of them padded
C12_Witness ==
    /\ tr.pc = "advance"
    /\ Len(delivered) = 2
    /\ sent[1].payload.n % 8 # 0
    /\ tr.msg_header.sequence
         = FrameSize(sent[1].payload.n) + FrameSize(sent[2].payload.n)

\* the MessageHeader in the ring at an absolute index
FrameHeaderAt(index) ==
    HeaderOfBytes([i \in 1..32 |-> ring[(index + i - 1) % hdr.ring_buffer_size]])

\* C13: a try_read whose buffer is smaller than the payload of the oldest
\* unread frame returns false with the in/out size set to that payload size,
\* and changes neither the header (read_index included), nor the ring, nor
\* the caller's buffer.  A try_read whose buffer is large enough for that
\* frame goes on to copy it, and what it hands out is the oldest unread
\* frame, whatever reads failed before.
C13_TooSmallBufferLeavesFrame ==
    /\ [][(tr.pc = "read_header" /\ tr' # tr
             /\ FrameHeaderAt(tr.current_read).magic = MAGIC) =>
            LET h == FrameHeaderAt(tr.current_read)
            IN  IF h.size > tr.data_size
                THEN /\ read_result' = "false"
                     /\ tr'.pc = "idle"
                     /\ hdr' = hdr
                     /\ ring' = ring
                     /\ delivered' = delivered
                     /\ ~tr.via_poll => /\ tr'.data_size = h.size
                                        /\ tr'.buffer = tr.buffer
                ELSE /\ tr'.pc = "read_payload"
                     /\ tr'.msg_header = h
                     /\ h.sequence = hdr.read_index]_vars
    /\ [](/\ Len(delivered) <= Len(sent)
          /\ \A k \in 1..Len(delivered) : delivered[k] = Bytes(sent[k].payload))

\* a direct caller with a 2-byte buffer was told that the second frame needs
\* 64 bytes; the frame is still the oldest unread one
C13_Witness ==
    /\ tr.pc = "idle"
    /\ ~tr.via_poll
    /\ read_result = "false"
    /\ Len(tr.buffer) = 2
    /\ tr.data_size = 64
    /\ Len(delivered) = 1
    /\ Len(sent) >= 2
    /\ sent[2].payload.n = 64
    /\ hdr.read_index = sent[2].sequence

\* the oldest unread frame has a bad magic and the consumer has not passed
\* the magic check for it
MetCorrupt ==
    /\ hdr.read_index < hdr.write_index
    /\ FrameHeaderAt(hdr.read_index).magic # MAGIC
    /\ tr.pc \in {"idle", "load_write", "read_header"}

\* C14: once the frame at read_index has a bad magic, the try_read that
\* reads it returns false, read_index stays where it is, nothing is handed
\* out, and this remains so for every later read, whatever the producer
\* sends meanwhile.
C14_CorruptFrameBlocksReads ==
    [][MetCorrupt =>
         /\ MetCorrupt'
         /\ hdr'.read_index = hdr.read_index
         /\ delivered' = delivered
         /\ (tr.pc = "read_header" /\ tr' # tr)
              => (read_result' = "false" /\ tr'.pc = "idle")]_vars

\* a read has failed on a damaged first frame while a second frame, intact,
\* is published behind it
C14_Witness ==
    /\ MetCorrupt
    /\ tr.pc = "idle"
    /\ read_result = "false"
    /\ delivered = <<>>
    /\ Len(sent) = 2
    /\ hdr.read_index = sent[1].sequence
    /\ FrameHeaderAt(sent[2].sequence).magic = MAGIC

\* C15 as stated: a read that finds a bad magic reports MessageCorrupted,
\* an outcome that differs from the one of a read that finds the ring empty.
C15_CorruptIsSurfaced ==
    [][(tr.pc = "read_header" /\ tr' # tr
          /\ FrameHeaderAt(tr.current_read).magic # MAGIC)
         => read_result' = "MessageCorrupted"]_vars

\* C16 as stated: the header is zeroed and initialised by at most one of the
\* attaching peers, and never after a frame has been published: the indices
\* of a region that holds a published frame are not reset.
C16_InitializedAtMostOnce ==
    /\ opening["sender"].inits + opening["receiver"].inits <= 1
    /\ Len(sent) > 0 =>
          hdr.write_index >= sent[Len(sent)].sequence + FrameSize(sent[Len(sent)].payload.n)

\* C17 as stated: a peer whose attach found magic = MAGIC, and so validates
\* the header instead of initialising it, finds the final version and
\* ring_buffer_size there.
C17_MagicIsWrittenLast ==
    \A p \in Peers :
        opening[p].pc = "validate" =>
            /\ hdr.version = as_uint32(PROTOCOL_VERSION)
            /\ hdr.ring_buffer_size = config_of(p).ring_buffer_size

\* C18 as stated: the receiver never initialises a header, and its attach to
\* a region whose magic is 0 ends with ChannelNotFound.
C18_ReceiverNeverInitializes ==
    /\ opening["receiver"].inits = 0
    /\ (opening["receiver"].pc = "done" /\ opening["receiver"].needs_init)
          => opening["receiver"].result = "ChannelNotFound"

\* the header's ring_buffer_size is a non-zero power of two
RingSizeIsPowerOfTwo == \E k \in 0..30 : hdr.ring_buffer_size = 2^k

\* C19 as stated: on a header that is otherwise valid, validation by a peer
\* succeeds when the region was initialised by a build of the same major,
\* whatever the 16-bit minors and patches, and returns VersionMismatch when
\* the majors differ.
C19_CompatibleIffSameMajor ==
    (validation.result # "none" /\ hdr.magic = MAGIC /\ RingSizeIsPowerOfTwo) =>
        validation.result =
            IF validation.writer.major = validation.peer.major
            THEN "Success" ELSE "VersionMismatch"

\* C20: validate_header returns InvalidMemoryLayout when magic is not the
\* sentinel; otherwise VersionMismatch when the major in bits 16..31 of
\* version is not the validating build's; otherwise InvalidMemoryLayout when
\* ring_buffer_size is zero or not a power of two; otherwise Success.  It
\* leaves the header as it is.
C20_ValidatePrecedence ==
    [][/\ hdr' = hdr
       /\ validation'.result # "none" =>
            validation'.result =
                IF hdr.magic # MAGIC THEN "InvalidMemoryLayout"
                ELSE IF (hdr.version \div 65536) % 65536 # validation.peer.major
                     THEN "VersionMismatch"
                ELSE IF ~RingSizeIsPowerOfTwo THEN "InvalidMemoryLayout"
                ELSE "Success"]_vars

\* a header with the sentinel, a foreign major and a ring size that is not
\* a power of two was reported as VersionMismatch
C20_Witness ==
    /\ validation.result = "VersionMismatch"
    /\ hdr.magic = MAGIC
    /\ hdr.ring_buffer_size = 6144

\* --------------------------------------------- attach to an existing region

\* peer p returned from Channel::open with a configuration is_valid accepts
Attached(p) == opening[p].pc = "done" /\ is_valid(config_of(p))

\* C21: an attach to a region whose magic is neither 0 nor the sentinel fails
\* with InvalidMemoryLayout and leaves the header and the ring as found.
C21_ForeignMagicIsRefused ==
    \A p \in Peers :
        (found.exists /\ found.hdr.magic \notin {0, MAGIC} /\ Attached(p))
            => /\ opening[p].result = "InvalidMemoryLayout"
               /\ hdr = found.hdr
               /\ ring = found.ring

\* the region peer p attaches to was created zero-filled for p's ring size,
\* by create_or_open itself or before it, and the other peer has not attached
FreshFor(p) ==
    /\ \/ ~found.exists
       \/ /\ found.hdr = ZeroSharedHeader
          /\ found.ring = ZeroRing(config_of(p).ring_buffer_size)
    /\ \A q \in Peers \ {p} : opening[q].pc = "start"

\* C22: with a configuration is_valid accepts, an attach to a freshly zeroed
\* region of the header and ring_buffer_size bytes succeeds and leaves the
\* header with the magic, version 1.0.0 packed, the configured ring size and
\* flags, both indices zero and the reserved bytes zero.
C22_FreshRegionIsInitialised ==
    \A p \in Peers :
        (Attached(p) /\ FreshFor(p))
            => /\ opening[p].result = "Success"
               /\ hdr.magic = MAGIC
               /\ hdr.version = as_uint32([major |-> 1, minor |-> 0, patch |-> 0])
               /\ hdr.ring_buffer_size = config_of(p).ring_buffer_size
               /\ hdr.flags = config_of(p).flags
               /\ hdr.write_index = 0
               /\ hdr.read_index = 0
               /\ hdr.reserved = 0
               /\ region_size = align_up(SharedMemoryHeaderSize, CACHE_LINE_SIZE)
                                   + config_of(p).ring_buffer_size

C22_Witness ==
    /\ Attached("receiver") /\ FreshFor("receiver")
    /\ found = region(ZeroSharedHeader, ZeroRing(4096))
    /\ receiver.config_.flags = 5
    /\ opening["receiver"].result = "Success"
    /\ hdr.flags = 5

\* the configurations the attach has to refuse
Refused(c) ==
    \/ c.ring_buffer_size < 4096
    \/ ~(\E k \in 0..20 : c.ring_buffer_size = 2^k)
    \/ c.max_message_size < 64
    \/ c.max_message_size >= c.ring_buffer_size \div 2

\* C23: Channel::open returns InvalidOperation exactly for a ring size below
\* 4096 or not a power of two, or a max_message_size below 64 or of at least
\* half the ring; a refused open maps nothing and leaves the region, its
\* size, its header and its ring as they were.
C23_RefusedExactlyAndUntouched ==
    \A p \in Peers :
        opening[p].pc = "done"
            => /\ (opening[p].result = "InvalidOperation") <=> Refused(config_of(p))
               /\ Refused(config_of(p))
                    => /\ region_exists = found.exists
                       /\ region_size = found.size
                       /\ hdr = found.hdr
                       /\ ring = found.ring
                       /\ chan[p] = no_channel

C23_Witness ==
    /\ opening["sender"].pc = "done"
    /\ opening["sender"].result = "InvalidOperation"
    /\ sender.config_.ring_buffer_size = 8192
    /\ sender.config_.max_message_size = 4096
    /\ found = region(LiveHeader(4096), StaleRing(4096))
    /\ region_size = 4224

\* C24: an attach with a flag bit other than bits 0..3 is refused, and no
\* header carrying the magic has such a bit.
C24_ReservedFlagBitsRefused ==
    /\ \A p \in Peers :
          (opening[p].pc = "done" /\ config_of(p).flags >= 16)
              => opening[p].result = "InvalidOperation"
    /\ hdr.magic = MAGIC => hdr.flags < 16

\* C25: when the region found is smaller than the header and the attaching
\* peer's ring, the attach fails and the region keeps its size, header and
\* ring.
C25_SmallRegionIsRefused ==
    \A p \in Peers :
        (/\ found.exists
         /\ found.size < align_up(SharedMemoryHeaderSize, CACHE_LINE_SIZE)
                            + config_of(p).ring_buffer_size
         /\ Attached(p))
            => /\ opening[p].result # "Success"
               /\ region_size = found.size
               /\ hdr = found.hdr
               /\ ring = found.ring

\* C26: after a successful attach to a region that was live, the header
\* holds the attaching peer's process id: sender_pid for the sender,
\* receiver_pid for the receiver.
C26_AttachRecordsPid ==
    \A p \in Peers :
        (/\ found.hdr.magic = MAGIC
         /\ Attached(p)
         /\ opening[p].result = "Success"
         /\ \A q \in Peers \ {p} : opening[q].pc = "start")
            => IF p = "sender" THEN hdr.sender_pid = getpid(p)
               ELSE hdr.receiver_pid = getpid(p)

\* -------------------------------------------------------- Channel lifetime

\* Channel::close ran on peer p's Channel in this step
Closes(p) == chan'[p].closes = chan[p].closes + 1

\* C27: after Channel::close the Channel is not open, and a further close of
\* the same Channel, the destructor's included, unmaps nothing, closes
\* nothing and changes neither the Channel nor the region.
C27_CloseIsIdempotent ==
    [][\A p \in Peers :
          Closes(p)
            => /\ ~is_open(chan'[p])
               /\ chan[p].closes >= 1
                    => /\ chan'[p].munmaps = chan[p].munmaps
                       /\ chan'[p].fd_closes = chan[p].fd_closes
                       /\ chan'[p].mapped = chan[p].mapped
                       /\ chan'[p].shared_memory_ = chan[p].shared_memory_
                       /\ chan'[p].platform_handle_ = chan[p].platform_handle_
                       /\ chan'[p].header_ = chan[p].header_
                       /\ chan'[p].ring_buffer_ = chan[p].ring_buffer_
                       /\ hdr' = hdr
                       /\ ring' = ring]_vars

C27_Witness ==
    /\ chan["sender"].pc = "destroyed"
    /\ chan["sender"].closes = 3
    /\ chan["sender"].munmaps = 3
    /\ ~is_open(chan["sender"])

\* C28: Channel::close does not unmap the region or end the mapping, and
\* changes neither the shared header nor the ring.
C28_CloseDoesNotUnmap ==
    [][\A p \in Peers :
          Closes(p)
            => /\ chan'[p].munmaps = chan[p].munmaps
               /\ chan'[p].mapped = chan[p].mapped
               /\ hdr' = hdr
               /\ ring' = ring]_vars

\* C29: no step of an attach, a send, a receive or a close lowers
\* write_index or read_index.
C29_IndicesNeverDecrease ==
    [][/\ hdr'.write_index >= hdr.write_index
       /\ hdr'.read_index >= hdr.read_index]_vars

\* ------------------------------------------------- start_async and stop

\* C30: a stop() called after start_async returned always returns: the
\* worker thread leaves its loop and is joined.
C30_StopReturns == (rx.stop = "join") ~> (rx.stop = "returned")

\* ------------------------------------------------------ filling the ring

\* C32: on a fresh ring, sends of one payload length with no receive succeed
\* exactly floor(ring size / (32 + align_up(length, 8))) times and every
\* later send returns ChannelFull; with 4096 and 256 bytes that is 14.
C32_SendsUntilFull ==
    (tw.pc = "idle" /\ nsends > 0)
        => LET k == sender.config_.ring_buffer_size
                        \div (32 + align_up(send_arg.n, 8))
           IN  /\ nsends <= k => send_result = "Success" /\ Len(sent) = nsends
               /\ nsends > k => send_result = "ChannelFull" /\ Len(sent) = k
               /\ (send_arg.n = 256 /\ send_result = "ChannelFull") => Len(sent) = 14

C32_Witness ==
    /\ tw.pc = "idle"
    /\ send_arg.n = 256
    /\ nsends = 15
    /\ send_result = "ChannelFull"
    /\ Len(sent) = 14

C34_ChecksumRejectsDamage ==
    /\ checksums_enabled(receiver.config_)
          => \A i \in 1..Len(delivered) : delivered[i] = Bytes(sent[i].payload)
    /\ ~checksums_enabled(sender.config_)
          => (tw.pc \in {"write_header", "write_payload", "publish"}
                => tw.msg_header.checksum = 0)

\* ----------------------------------------------------------- frame boundary

\* C35: whenever read_index < write_index, the 32 bytes at ring position
\* read_index mod ring size are the MessageHeader of the oldest unread frame
\* as the producer wrote it: its magic, its sequence equal to read_index, the
\* length of the oldest payload not yet delivered; and read_index is the sum
\* of the frame sizes of the payloads delivered.
C35_ReadIndexOnFrameBoundary ==
    hdr.read_index < hdr.write_index
        => /\ Len(delivered) < Len(sent)
           /\ LET h      == FrameHeaderAt(hdr.read_index)
                  oldest == sent[Len(delivered) + 1]
              IN  /\ h.magic = MAGIC
                  /\ h.sequence = hdr.read_index
                  /\ h.sequence = oldest.sequence
                  /\ h.size = oldest.payload.n
                  /\ h.timestamp = oldest.timestamp

C35_Witness ==
    /\ hdr.read_index < hdr.write_index
    /\ Len(delivered) = 2
    /\ Position(hdr.read_index) + 32 > hdr.ring_buffer_size

\* ------------------------------------------------------- mapping lifetime

\* C36: a Channel held by a Sender or Receiver that reports is_open() has
\* its region still mapped.
C36_OpenChannelIsMapped ==
    \A p \in Peers : (chan[p].pc = "held" /\ is_open(chan[p])) => chan[p].mapped

\* C37: over open, move, close and destruction of the SharedMemory and
\* Channel objects of one mapping, munmap is called on it at most once.
C37_UnmappedAtMostOnce == \A p \in Peers : chan[p].munmaps <= 1

\* ------------------------------------------------ attach to a live region

\* C38: for a successfully attached peer, the size its RingBuffer masks and
\* checks space with equals the ring_buffer_size of the shared header.
C38_RingSizeIsTheHeaders ==
    \A p \in Peers :
        (Attached(p) /\ opening[p].result = "Success")
            => RingBuffer(config_of(p)).size_ = hdr.ring_buffer_size

\* the region found was live: the magic set and the header valid
FoundLive == found.exists /\ found.hdr.magic = MAGIC /\ validate_header(found.hdr) = "Success"

\* C39: an attach to a live region leaves write_index, read_index, the ring
\* size, the version, the flags and every ring byte as found.
C39_AttachLeavesLiveRegion ==
    \A p \in Peers :
        (FoundLive /\ opening[p].pc = "done")
            => /\ hdr.write_index = found.hdr.write_index
               /\ hdr.read_index = found.hdr.read_index
               /\ hdr.ring_buffer_size = found.hdr.ring_buffer_size
               /\ hdr.version = found.hdr.version
               /\ hdr.flags = found.hdr.flags
               /\ \A i \in DOMAIN found.ring : i \in DOMAIN ring /\ ring[i] = found.ring[i]

\* start_async was called in this step
Starts == rx'.starts = rx.starts + 1

\* C40: a start_async called while worker_thread_ is joinable, a worker
\* having been started and not stopped, returns InvalidOperation and starts
\* no thread; otherwise, also after a stop(), it returns Success and starts
\* one; so at most one worker thread exists.
C40_OneWorkerAtATime ==
    [][/\ Starts =>
            IF rx.worker # "none"
            THEN /\ rx'.start_result = "InvalidOperation"
                 /\ rx'.worker = rx.worker
                 /\ rx'.threads = rx.threads
                 /\ rx'.running_ = rx.running_
            ELSE /\ rx'.start_result = "Success"
                 /\ rx'.worker = "spawned"
                 /\ rx'.threads = 1
       /\ rx'.threads <= 1]_vars

C40_Witness ==
    /\ rx.starts = 3
    /\ rx.stop = "returned"
    /\ rx.start_result = "Success"
    /\ rx.worker = "loop"
    /\ rx.threads = 1

\* ------------------------------------------- receiver before the sender

\* C31: with the Receiver constructed and started before the Sender is
\* constructed, a message the sender sent successfully is eventually passed
\* to the receiver's handler.
C31_SentIsEventuallyHandled == (Len(sent) = 1) ~> (Len(delivered) = 1)
====
